---- MODULE Spec2Model ----
(***************************************************************************)
(* State-machine model of the SX1276 radio driver (src/src/SX1276.cpp,     *)
(* src/src/SX1276.h), built with both LORA_ENABLED and FSK_OOK_ENABLED.    *)
(*                                                                         *)
(* The driver object, the chip's register file, the chip-select line, the  *)
(* chip's RX FIFO, the caller's receive buffer and the per-call bus log    *)
(* are the state.  Driver methods are operators on a "machine" record m    *)
(* that bundles this state, so that a handler is the composition of the    *)
(* calls it makes, in program order.                                       *)
(***************************************************************************)
EXTENDS Integers, Naturals, Sequences, FiniteSets, TLC

\* ------------------------------------------------------------------ bounds
\* longest payload / packet sampled, besides the over-long 256
MaxLen == 2
\* calls explored after each bring-up of the radio
MaxCalls == 3
\* of these, how many may be configuration calls (setters, register access)
MaxCfgCalls == 1

\* ------------------------------------------------- register map (SX1276.h)
SX1276_REG_FIFO == 0
SX1276_REG_OP_MODE == 1
SX1276_REG_BITRATE_MSB == 2
SX1276_REG_BITRATE_LSB == 3
SX1276_REG_FDEV_MSB == 4
SX1276_REG_FDEV_LSB == 5
SX1276_REG_FRF_MSB == 6
SX1276_REG_FRF_MID == 7
SX1276_REG_FRF_LSB == 8
SX1276_REG_PA_CONFIG == 9
SX1276_REG_OCP == 11
SX1276_REG_LNA == 12
SX1276_REG_FIFO_ADDR_PTR == 13
SX1276_REG_RX_CONFIG == 13
SX1276_REG_FIFO_TX_BASE_ADDR == 14
SX1276_REG_FIFO_RX_BASE_ADDR == 15
SX1276_REG_FIFO_RX_CURRENT_ADDR == 16
SX1276_REG_RSSI_THRESH == 16
SX1276_REG_RSSI_VALUE_FSK == 17
SX1276_REG_IRQ_FLAGS == 18
SX1276_REG_RX_BW == 18
SX1276_REG_RX_NB_BYTES == 19
SX1276_REG_AFC_BW == 19
SX1276_REG_MODEM_CONFIG_1 == 29
SX1276_REG_MODEM_CONFIG_2 == 30
SX1276_REG_PREAMBLE_DETECT == 31
SX1276_REG_PREAMBLE_MSB == 32
SX1276_REG_PREAMBLE_LSB == 33
SX1276_REG_PAYLOAD_LENGTH == 34
SX1276_REG_RX_TIMEOUT_1 == 32
SX1276_REG_RX_TIMEOUT_2 == 33
SX1276_REG_RX_TIMEOUT_3 == 34
SX1276_REG_PREAMBLE_MSB_FSK == 37
SX1276_REG_PREAMBLE_LSB_FSK == 38
SX1276_REG_MODEM_CONFIG_3 == 38
SX1276_REG_SYNC_CONFIG == 39
SX1276_REG_SYNC_VALUE_1 == 40
SX1276_REG_FREQ_ERROR_MSB == 40
SX1276_REG_FREQ_ERROR_MID == 41
SX1276_REG_FREQ_ERROR_LSB == 42
SX1276_REG_PACKET_CONFIG_1 == 48
SX1276_REG_PACKET_CONFIG_2 == 49
SX1276_REG_DETECTION_OPTIMIZE == 49
SX1276_REG_PAYLOAD_LENGTH_FSK == 50
SX1276_REG_FIFO_THRESH == 53
SX1276_REG_SEQ_CONFIG_1 == 54
SX1276_REG_DETECTION_THRESHOLD == 55
SX1276_REG_SYNC_WORD == 57
SX1276_REG_IRQ_FLAGS_1 == 62
SX1276_REG_IRQ_FLAGS_2 == 63
SX1276_REG_DIO_MAPPING_1 == 64
SX1276_REG_VERSION == 66
SX1276_REG_PA_DAC == 77

\* operating modes
SX1276_MODE_SLEEP == 0
SX1276_MODE_STDBY == 1
SX1276_MODE_TX == 3
SX1276_MODE_RX_CONTINUOUS == 5

\* modulation-family bit of the operating-mode register
SX1276_LORA_MODE == 128
SX1276_FSK_OOK_MODE == 0

\* modulation selector
SX1276_MODULATION_FSK == 0
SX1276_MODULATION_OOK == 1
SX1276_MODULATION_LORA == 2

\* FSK/OOK IRQ flags 2
SX1276_IRQ2_FIFO_OVERRUN == 16
SX1276_IRQ2_PACKET_SENT == 8
SX1276_IRQ2_PAYLOAD_READY == 4
SX1276_IRQ2_CRC_OK == 2

\* LoRa IRQ flags
SX1276_IRQ_TX_DONE == 8
SX1276_IRQ_PAYLOAD_CRC_ERROR == 32
SX1276_IRQ_RX_DONE == 64

\* PA configuration
SX1276_PA_BOOST == 128
SX1276_MAX_POWER == 112

\* LoRa parameter encodings
SX1276_BW_7_8_KHZ == 0
SX1276_BW_10_4_KHZ == 16
SX1276_BW_15_6_KHZ == 32
SX1276_BW_20_8_KHZ == 48
SX1276_BW_31_25_KHZ == 64
SX1276_BW_41_7_KHZ == 80
SX1276_BW_62_5_KHZ == 96
SX1276_BW_125_KHZ == 112
SX1276_BW_250_KHZ == 128
SX1276_BW_500_KHZ == 144
SX1276_CR_4_5 == 2
SX1276_CR_4_6 == 4
SX1276_CR_4_7 == 6
SX1276_CR_4_8 == 8
SX1276_SF_6 == 6
SX1276_SF_7 == 7
SX1276_SF_12 == 12

\* FSK RX bandwidth encodings used by the constructor and beginFSK
SX1276_RX_BW_10_4_KHZ_FSK == 21
SX1276_RX_BW_125_0_KHZ_FSK == 2
SX1276_RX_BW_250_0_KHZ_FSK == 1

\* error codes
SX1276_ERR_NONE == 0
SX1276_ERR_CHIP_NOT_FOUND == -1
SX1276_ERR_PACKET_TOO_LONG == -2
SX1276_ERR_TX_TIMEOUT == -3
SX1276_ERR_RX_TIMEOUT == -4
SX1276_ERR_CRC_MISMATCH == -5
SX1276_ERR_INVALID_BANDWIDTH == -6
SX1276_ERR_INVALID_SPREADING_FACTOR == -7
SX1276_ERR_INVALID_CODING_RATE == -8
SX1276_ERR_INVALID_FREQUENCY == -9
SX1276_ERR_INVALID_BITRATE == -11
SX1276_ERR_INVALID_FREQUENCY_DEVIATION == -12
SX1276_ERR_INVALID_SYNC_WORD == -13
SX1276_ERR_WRONG_MODEM == -14

SX1276_MAX_PACKET_LENGTH == 255
SX1276_FXOSC == 32000000

\* polling ceilings of transmit and receive, in milliseconds
TX_TIMEOUT_MS == 5000
RX_TIMEOUT_MS == 10000

\* Arduino line levels
LOW == 0
HIGH == 1

\* ------------------------------------------------------- machine integers
U8(x) == x % 256
U16(x) == x % 65536

\* The model's integers are 32-bit signed.  A 32-bit unsigned clock value is
\* carried as its two 16-bit halves; arithmetic on it is modulo 2^32.
U32Of(n) == [hi |-> n \div 65536, lo |-> n % 65536]
U32Add(a, d) ==
    [hi |-> (a.hi + (a.lo + d) \div 65536) % 65536, lo |-> (a.lo + d) % 65536]
U32Sub(a, b) ==
    [hi |-> (a.hi - b.hi - (IF a.lo < b.lo THEN 1 ELSE 0) + 131072) % 65536,
     lo |-> (a.lo - b.lo + 65536) % 65536]
\* a > n for a 32-bit unsigned a and 0 <= n < 65536
U32Gt(a, n) == a.hi > 0 \/ a.lo > n

\* (a conversion that rounds to the nearest step)
Frf_Rounded(x) ==
    (x \div 15625) * 256 + ((x % 15625) * 256 + 7812) \div 15625

\* floor(x * 2^19 / FXOSC) for the 64-bit product of the code, computed
\* without leaving 32 bits: 2^19 / 32000000 = 256 / 15625
Frf(x) == (x \div 15625) * 256 + ((x % 15625) * 256) \div 15625

RECURSIVE BitAndN(_, _, _)
BitAndN(a, b, n) ==
    IF n = 0 THEN 0
    ELSE (IF a % 2 = 1 /\ b % 2 = 1 THEN 1 ELSE 0)
         + 2 * BitAndN(a \div 2, b \div 2, n - 1)

\* a & b, a | b and a & ~b on 8-bit operands
And(a, b) == BitAndN(a, b, 8)
Or(a, b) == a + b - And(a, b)
AndNot(a, b) == a - And(a, b)

\* mode field (bits 2..0) and family bit (bit 7) of an operating-mode value
ModeField(v) == v % 8
FamilyBit(v) == And(v, SX1276_LORA_MODE)


\* ------------------------------------------------------------------ state
VARIABLES
    radio,   \* the SX1276 object: its private fields, named as in SX1276.h
    regs,    \* the chip's register file, by address
    fifo,    \* bytes the chip hands out on reads of the FIFO address
    cs,      \* level of the chip-select line at the chip
    xfer,    \* the chip's view of the open SPI transaction (address latch)
    bus,     \* bus operations of the current (or last) public call, in order
    buf,     \* the caller's buffer passed to receive
    pc,      \* "idle", polling inside transmit/receive, or "done" (returned)
    ret,     \* return value of the last public call
    op,      \* name of the current (or last) public call
    arg,     \* its length argument (len of transmit, maxLen of receive)
    now,     \* the millisecond clock, millis()
    start,   \* the local variable start of the polling loop
    calls    \* calls made since the radio was last brought up

vars == <<radio, regs, fifo, cs, xfer, bus, buf, pc, ret, op, arg, now, start,
          calls>>

Addr == 0 .. 127
Byte == 0 .. 255

\* no SPI transaction open
NoXfer == [addr |-> -1, wr |-> FALSE]

\* The state a driver method works on.  val is the value the last bus read
\* returned, float is what a read returns while the chip is not selected.
Machine(float) ==
    [r |-> radio, regs |-> regs, fifo |-> fifo, cs |-> cs, xfer |-> xfer,
     bus |-> <<>>, buf |-> buf, pc |-> "done", ret |-> SX1276_ERR_NONE,
     val |-> 0, float |-> float]

\* --------------------------------------------------------------- the chip
\* family the chip's register bank is switched to
ChipIsLoRa(rg) == FamilyBit(rg[SX1276_REG_OP_MODE]) # 0

\* The chip's response to a register write.  IRQ flag registers are sticky
\* and cleared by writing ones; the version register is read-only; the FIFO
\* address takes payload bytes, which the bus log records.
ChipWrite(m, a, v) ==
    IF a = SX1276_REG_FIFO \/ a = SX1276_REG_VERSION THEN m
    ELSE IF (a = SX1276_REG_IRQ_FLAGS /\ ChipIsLoRa(m.regs))
            \/ (a \in {SX1276_REG_IRQ_FLAGS_1, SX1276_REG_IRQ_FLAGS_2}
                /\ ~ChipIsLoRa(m.regs))
    THEN [m EXCEPT !.regs[a] = AndNot(@, v)]
    ELSE [m EXCEPT !.regs[a] = v]

\* The chip's response to a register read: the FIFO address hands out the
\* next received byte, any other address its register.
ChipRead(m, a) ==
    IF a = SX1276_REG_FIFO
    THEN IF m.fifo = <<>> THEN [m EXCEPT !.val = 0]
         ELSE [m EXCEPT !.val = Head(m.fifo), !.fifo = Tail(m.fifo)]
    ELSE [m EXCEPT !.val = m.regs[a]]

\* level of the chip's DIO0 line: in LoRa the flag selected by bits 7..6 of
\* the DIO mapping (00 RxDone, 01 TxDone); in FSK/OOK packet-sent or
\* payload-ready
ChipDIO0(rg) ==
    IF ChipIsLoRa(rg)
    THEN LET map == rg[SX1276_REG_DIO_MAPPING_1] \div 64
             fl == rg[SX1276_REG_IRQ_FLAGS]
         IN IF (map = 0 /\ And(fl, SX1276_IRQ_RX_DONE) # 0)
               \/ (map = 1 /\ And(fl, SX1276_IRQ_TX_DONE) # 0)
            THEN HIGH ELSE LOW
    ELSE IF And(rg[SX1276_REG_IRQ_FLAGS_2],
                SX1276_IRQ2_PACKET_SENT + SX1276_IRQ2_PAYLOAD_READY) # 0
         THEN HIGH ELSE LOW

\* ------------------------------------------------------ SPI helpers
\* spiBegin: beginTransaction, then chip-select low.  digitalWrite on an
\* unbound (negative) pin reaches no line.
spiBegin(m) ==
    [m EXCEPT !.bus = Append(@, <<"cs", LOW>>),
              !.cs = IF m.r.csPin >= 0 THEN LOW ELSE @]

spiEnd(m) ==
    [m EXCEPT !.bus = Append(@, <<"cs", HIGH>>),
              !.cs = IF m.r.csPin >= 0 THEN HIGH ELSE @,
              !.xfer = IF m.r.csPin >= 0 THEN NoXfer ELSE @]

\* spiTransfer: one full-duplex byte.  The first byte of a transaction is
\* the address with the write bit in bit 7, the following bytes are data.
spiTransfer(m, data) ==
    LET m0 == [m EXCEPT !.bus = Append(@, <<"xfer", data>>), !.val = m.float]
    IN IF m.cs # LOW THEN m0
       ELSE IF m.xfer = NoXfer
       THEN [m0 EXCEPT !.xfer = [addr |-> data % 128, wr |-> data >= 128]]
       ELSE LET a == m.xfer.addr
                nxt == IF a = SX1276_REG_FIFO THEN a ELSE (a + 1) % 128
                m1 == IF m.xfer.wr THEN ChipWrite(m0, a, data)
                      ELSE ChipRead(m0, a)
            IN [m1 EXCEPT !.xfer.addr = nxt]

readRegister(m, addr) ==
    spiEnd(spiTransfer(spiTransfer(spiBegin(m), And(addr, 127)), 0))

writeRegister(m, addr, value) ==
    spiEnd(spiTransfer(spiTransfer(spiBegin(m), Or(addr, 128)), U8(value)))

digitalRead_dio0(m) ==
    IF m.r.dio0Pin >= 0 THEN ChipDIO0(m.regs) ELSE m.float % 2

\* ------------------------------------------------------ mode controller
\* (a controller that writes the request as given, family bit and all)
setMode_NoPreserve(m, mode) ==
    [writeRegister(m, SX1276_REG_OP_MODE, mode) EXCEPT !.ret = SX1276_ERR_NONE]

setMode(m, mode) ==
    LET modulationMask == Or(SX1276_LORA_MODE, SX1276_FSK_OOK_MODE)
        given == And(mode, modulationMask) # 0
        m1 == IF given THEN m ELSE readRegister(m, SX1276_REG_OP_MODE)
        requestedModulation ==
            IF given THEN And(mode, modulationMask)
            ELSE And(m1.val, modulationMask)
        newOpMode == Or(AndNot(mode, modulationMask), requestedModulation)
    IN [writeRegister(m1, SX1276_REG_OP_MODE, newOpMode)
            EXCEPT !.ret = SX1276_ERR_NONE]

\* (a standby that requests Sleep)
standby_Sleeps(m) == setMode(m, SX1276_MODE_SLEEP)

standby(m) == setMode(m, SX1276_MODE_STDBY)

sleep(m) ==
    IF m.r.modulation = SX1276_MODULATION_LORA
    THEN setMode(m, Or(SX1276_MODE_SLEEP, SX1276_LORA_MODE))
    ELSE setMode(m, Or(SX1276_MODE_SLEEP, SX1276_FSK_OOK_MODE))


\* A float argument is carried as its whole part and its fractional part in
\* units of 10^-7, so that 7.8f (7.8000001907...) and the double literal 7.8
\* differ.  Flt(7, 8000001) is 7.8f.
Flt(w, f) == [whole |-> w, frac |-> f]
FltEq(x, w, f) == x.whole = w /\ x.frac = f
FltLe(x, w, f) == x.whole < w \/ (x.whole = w /\ x.frac <= f)

\* (long)(x * 1000000.0) and (uint32_t)(x * 1000.0) for a float x >= 0
FloatTimesMillion(x) == x.whole * 1000000 + x.frac \div 10
FloatTimesThousand(x) == x.whole * 1000 + x.frac \div 10000

\* ------------------------------------------------------ common setters
setFrequency(m, freq) ==
    IF freq < 137000000 \/ freq > 1020000000
    THEN [m EXCEPT !.ret = SX1276_ERR_INVALID_FREQUENCY]
    ELSE LET frf == Frf(freq)
             m1 == [m EXCEPT !.r.freq = freq]
             m2 == writeRegister(m1, SX1276_REG_FRF_MSB, (frf \div 65536) % 256)
             m3 == writeRegister(m2, SX1276_REG_FRF_MID, (frf \div 256) % 256)
             m4 == writeRegister(m3, SX1276_REG_FRF_LSB, frf % 256)
         IN [m4 EXCEPT !.ret = SX1276_ERR_NONE]

\* the (float MHz) overload
setFrequency_MHz(m, freq) == setFrequency(m, FloatTimesMillion(freq))

\* (a setPower that does not raise low requests to the floor of its path)
setPower_NoFloor(m, power, useBoost) ==
    LET m1 == [m EXCEPT !.r.power = power, !.r.useBoost = useBoost]
        high == useBoost /\ power > 17
        p == IF useBoost
             THEN IF power > 17
                  THEN (IF power > 20 THEN 20 ELSE power) - 3
                  ELSE power
             ELSE IF power > 14 THEN 14 ELSE power
        paDac == IF high THEN 135 ELSE 132
        paConfig == IF useBoost THEN Or(SX1276_PA_BOOST, U8(p - 2))
                    ELSE Or(SX1276_MAX_POWER, U8(p + 1))
        m2 == writeRegister(m1, SX1276_REG_PA_CONFIG, paConfig)
        m3 == writeRegister(m2, SX1276_REG_PA_DAC, paDac)
    IN [m3 EXCEPT !.ret = SX1276_ERR_NONE]

setPower(m, power, useBoost) ==
    LET m1 == [m EXCEPT !.r.power = power, !.r.useBoost = useBoost]
        high == useBoost /\ power > 17
        p == IF useBoost
             THEN IF power > 17
                  THEN (IF power > 20 THEN 20 ELSE power) - 3
                  ELSE IF power < 2 THEN 2 ELSE power
             ELSE IF power > 14 THEN 14
                  ELSE IF power < -1 THEN -1 ELSE power
        paDac == IF high THEN 135 ELSE 132
        paConfig == IF useBoost THEN Or(SX1276_PA_BOOST, U8(p - 2))
                    ELSE Or(SX1276_MAX_POWER, U8(p + 1))
        m2 == writeRegister(m1, SX1276_REG_PA_CONFIG, paConfig)
        m3 == writeRegister(m2, SX1276_REG_PA_DAC, paDac)
    IN [m3 EXCEPT !.ret = SX1276_ERR_NONE]

\* ------------------------------------------------------ LoRa setters
setBandwidth(m, bw) ==
    IF bw > SX1276_BW_500_KHZ
    THEN [m EXCEPT !.ret = SX1276_ERR_INVALID_BANDWIDTH]
    ELSE LET m1 == readRegister([m EXCEPT !.r.bw = bw],
                                SX1276_REG_MODEM_CONFIG_1)
             config1 == Or(And(m1.val, 15), bw)
         IN [writeRegister(m1, SX1276_REG_MODEM_CONFIG_1, config1)
                EXCEPT !.ret = SX1276_ERR_NONE]

\* (a setter that stores its argument before validating it)
setSpreadingFactor_StoreFirst(m, sf) ==
    IF sf < SX1276_SF_6 \/ sf > SX1276_SF_12
    THEN [m EXCEPT !.r.sf = sf, !.ret = SX1276_ERR_INVALID_SPREADING_FACTOR]
    ELSE LET m1 == readRegister([m EXCEPT !.r.sf = sf],
                                SX1276_REG_MODEM_CONFIG_2)
             config2 == Or(And(m1.val, 15), U8(sf * 16))
             m2 == writeRegister(m1, SX1276_REG_MODEM_CONFIG_2, config2)
             m3 == writeRegister(m2, SX1276_REG_DETECTION_OPTIMIZE,
                                 IF sf = SX1276_SF_6 THEN 5 ELSE 3)
             m4 == writeRegister(m3, SX1276_REG_DETECTION_THRESHOLD,
                                 IF sf = SX1276_SF_6 THEN 12 ELSE 10)
         IN [m4 EXCEPT !.ret = SX1276_ERR_NONE]

\* (a setter that programs the standard detection pair for every factor)
setSpreadingFactor_StandardPair(m, sf) ==
    IF sf < SX1276_SF_6 \/ sf > SX1276_SF_12
    THEN [m EXCEPT !.ret = SX1276_ERR_INVALID_SPREADING_FACTOR]
    ELSE LET m1 == readRegister([m EXCEPT !.r.sf = sf],
                                SX1276_REG_MODEM_CONFIG_2)
             config2 == Or(And(m1.val, 15), U8(sf * 16))
             m2 == writeRegister(m1, SX1276_REG_MODEM_CONFIG_2, config2)
             m3 == writeRegister(m2, SX1276_REG_DETECTION_OPTIMIZE, 3)
             m4 == writeRegister(m3, SX1276_REG_DETECTION_THRESHOLD, 10)
         IN [m4 EXCEPT !.ret = SX1276_ERR_NONE]

setSpreadingFactor(m, sf) ==
    IF sf < SX1276_SF_6 \/ sf > SX1276_SF_12
    THEN [m EXCEPT !.ret = SX1276_ERR_INVALID_SPREADING_FACTOR]
    ELSE LET m1 == readRegister([m EXCEPT !.r.sf = sf],
                                SX1276_REG_MODEM_CONFIG_2)
             config2 == Or(And(m1.val, 15), U8(sf * 16))
             m2 == writeRegister(m1, SX1276_REG_MODEM_CONFIG_2, config2)
             m3 == writeRegister(m2, SX1276_REG_DETECTION_OPTIMIZE,
                                 IF sf = SX1276_SF_6 THEN 5 ELSE 3)
             m4 == writeRegister(m3, SX1276_REG_DETECTION_THRESHOLD,
                                 IF sf = SX1276_SF_6 THEN 12 ELSE 10)
         IN [m4 EXCEPT !.ret = SX1276_ERR_NONE]

setCodingRate(m, cr) ==
    IF cr < SX1276_CR_4_5 \/ cr > SX1276_CR_4_8
    THEN [m EXCEPT !.ret = SX1276_ERR_INVALID_CODING_RATE]
    ELSE LET m1 == readRegister([m EXCEPT !.r.cr = cr],
                                SX1276_REG_MODEM_CONFIG_1)
             config1 == Or(And(m1.val, 241), cr)
         IN [writeRegister(m1, SX1276_REG_MODEM_CONFIG_1, config1)
                EXCEPT !.ret = SX1276_ERR_NONE]

\* (a setPreambleLength that writes the LoRa preamble registers whatever
\* the selected modulation)
setPreambleLength_LoRaRegisters(m, len) ==
    LET m1 == writeRegister([m EXCEPT !.r.preambleLength = len],
                            SX1276_REG_PREAMBLE_MSB, (len \div 256) % 256)
        m2 == writeRegister(m1, SX1276_REG_PREAMBLE_LSB, len % 256)
    IN [m2 EXCEPT !.ret = SX1276_ERR_NONE]

setPreambleLength(m, len) ==
    IF m.r.modulation = SX1276_MODULATION_LORA
    THEN LET m1 == writeRegister([m EXCEPT !.r.preambleLength = len],
                                 SX1276_REG_PREAMBLE_MSB, (len \div 256) % 256)
             m2 == writeRegister(m1, SX1276_REG_PREAMBLE_LSB, len % 256)
         IN [m2 EXCEPT !.ret = SX1276_ERR_NONE]
    ELSE IF m.r.modulation \in {SX1276_MODULATION_FSK, SX1276_MODULATION_OOK}
    THEN LET m1 == writeRegister([m EXCEPT !.r.preambleLengthFSK = len],
                                 SX1276_REG_PREAMBLE_MSB_FSK,
                                 (len \div 256) % 256)
             m2 == writeRegister(m1, SX1276_REG_PREAMBLE_LSB_FSK, len % 256)
         IN [m2 EXCEPT !.ret = SX1276_ERR_NONE]
    ELSE [m EXCEPT !.ret = SX1276_ERR_WRONG_MODEM]

\* the one-byte (LoRa) overload
setSyncWord(m, sw) ==
    [writeRegister([m EXCEPT !.r.syncWord = sw], SX1276_REG_SYNC_WORD, sw)
        EXCEPT !.ret = SX1276_ERR_NONE]

\* (a setCRC that writes the bit without the other bits it read)
setCRC_Overwrite(m, enable) ==
    LET m1 == readRegister([m EXCEPT !.r.crcEnabled = enable],
                           SX1276_REG_MODEM_CONFIG_2)
        config2 == IF enable THEN Or(And(m1.val, 240), 4) ELSE And(m1.val, 240)
    IN [writeRegister(m1, SX1276_REG_MODEM_CONFIG_2, config2)
            EXCEPT !.ret = SX1276_ERR_NONE]

setCRC(m, enable) ==
    LET m1 == readRegister([m EXCEPT !.r.crcEnabled = enable],
                           SX1276_REG_MODEM_CONFIG_2)
        config2 == IF enable THEN Or(m1.val, 4) ELSE And(m1.val, 251)
    IN [writeRegister(m1, SX1276_REG_MODEM_CONFIG_2, config2)
            EXCEPT !.ret = SX1276_ERR_NONE]

\* ------------------------------------------------------ FSK/OOK setters
\* (a setBitrate that masks the high byte to six bits, as the deviation
\* setter does)
setBitrate_MaskedMsb(m, bitrate) ==
    IF bitrate < 1200 \/ bitrate > 300000
    THEN [m EXCEPT !.ret = SX1276_ERR_INVALID_BITRATE]
    ELSE LET bitrateReg == SX1276_FXOSC \div bitrate
             m1 == writeRegister([m EXCEPT !.r.bitrate = bitrate],
                                 SX1276_REG_BITRATE_MSB,
                                 And((bitrateReg \div 256) % 256, 63))
             m2 == writeRegister(m1, SX1276_REG_BITRATE_LSB, bitrateReg % 256)
         IN [m2 EXCEPT !.ret = SX1276_ERR_NONE]

setBitrate(m, bitrate) ==
    IF bitrate < 1200 \/ bitrate > 300000
    THEN [m EXCEPT !.ret = SX1276_ERR_INVALID_BITRATE]
    ELSE LET bitrateReg == SX1276_FXOSC \div bitrate
             m1 == writeRegister([m EXCEPT !.r.bitrate = bitrate],
                                 SX1276_REG_BITRATE_MSB,
                                 (bitrateReg \div 256) % 256)
             m2 == writeRegister(m1, SX1276_REG_BITRATE_LSB, bitrateReg % 256)
         IN [m2 EXCEPT !.ret = SX1276_ERR_NONE]

setFrequencyDeviation(m, freqDev) ==
    IF freqDev # 0 /\ (freqDev < 600 \/ freqDev > 200000)
    THEN [m EXCEPT !.ret = SX1276_ERR_INVALID_FREQUENCY_DEVIATION]
    ELSE LET fdevReg == Frf(freqDev)
             m1 == writeRegister([m EXCEPT !.r.freqDev = freqDev],
                                 SX1276_REG_FDEV_MSB,
                                 And((fdevReg \div 256) % 256, 63))
             m2 == writeRegister(m1, SX1276_REG_FDEV_LSB, fdevReg % 256)
         IN [m2 EXCEPT !.ret = SX1276_ERR_NONE]

setRxBandwidth(m, rxBw) ==
    [writeRegister([m EXCEPT !.r.rxBw = rxBw], SX1276_REG_RX_BW, rxBw)
        EXCEPT !.ret = SX1276_ERR_NONE]

\* the sync-value register writes of the multi-byte setSyncWord, bytes i+1..len
RECURSIVE WriteSyncBytes(_, _, _, _)
WriteSyncBytes(m, syncWord, i, len) ==
    IF i >= len THEN m
    ELSE WriteSyncBytes(
            writeRegister(m, U8(SX1276_REG_SYNC_VALUE_1 + i), syncWord[i + 1]),
            syncWord, i + 1, len)

\* (a multi-byte setSyncWord that puts the length itself in the size field)
setSyncWord_bytes_SizeIsLen(m, syncWord, len) ==
    IF len < 1 \/ len > 8
    THEN [m EXCEPT !.ret = SX1276_ERR_INVALID_SYNC_WORD]
    ELSE LET m1 == [m EXCEPT
                      !.r.syncWordLen = len,
                      !.r.syncWordFSK =
                          [i \in 1 .. 8 |->
                              IF i <= len THEN syncWord[i] ELSE @[i]]]
             m2 == writeRegister(m1, SX1276_REG_SYNC_CONFIG,
                                 Or(144, And(len, 7)))
         IN [WriteSyncBytes(m2, syncWord, 0, len)
                EXCEPT !.ret = SX1276_ERR_NONE]

\* the multi-byte (FSK/OOK) overload; syncWord is the caller's array
setSyncWord_bytes(m, syncWord, len) ==
    IF len < 1 \/ len > 8
    THEN [m EXCEPT !.ret = SX1276_ERR_INVALID_SYNC_WORD]
    ELSE LET m1 == [m EXCEPT
                      !.r.syncWordLen = len,
                      !.r.syncWordFSK =
                          [i \in 1 .. 8 |->
                              IF i <= len THEN syncWord[i] ELSE @[i]]]
             m2 == writeRegister(m1, SX1276_REG_SYNC_CONFIG,
                                 Or(144, And(len - 1, 7)))
         IN [WriteSyncBytes(m2, syncWord, 0, len)
                EXCEPT !.ret = SX1276_ERR_NONE]

setPacketConfig(m, fixedLength, crcOn) ==
    LET m1 == [m EXCEPT !.r.fixedLength = fixedLength, !.r.crcOnFSK = crcOn]
        config1 == (IF fixedLength THEN 128 ELSE 0) + (IF crcOn THEN 16 ELSE 0)
        m2 == writeRegister(m1, SX1276_REG_PACKET_CONFIG_1, config1)
        m3 == writeRegister(m2, SX1276_REG_PACKET_CONFIG_2, 64)
    IN [m3 EXCEPT !.ret = SX1276_ERR_NONE]


\* ------------------------------------------------------ bring-up
\* Runs steps k..n of a sequence in program order and returns at the first
\* step whose status is not SX1276_ERR_NONE, as the handlers do.
RECURSIVE RunSteps(_, _, _, _)
RunSteps(Step(_, _), m, k, n) ==
    IF k > n THEN m
    ELSE LET m1 == Step(m, k)
         IN IF m1.ret # SX1276_ERR_NONE THEN m1
            ELSE RunSteps(Step, m1, k + 1, n)

\* Registers after power-on or the reset pulse: the chip is in FSK standby
\* (operating mode 0x09); the identity register keeps its value.
PowerOnRegs(rg) ==
    [a \in Addr |-> IF a = SX1276_REG_VERSION THEN rg[a]
                    ELSE IF a = SX1276_REG_OP_MODE THEN 9
                    ELSE 0]

\* reset(): pulse the reset line; an unbound pin reaches no line
reset(m) ==
    IF m.r.rstPin >= 0
    THEN [m EXCEPT !.regs = PowerOnRegs(m.regs), !.fifo = <<>>,
                   !.ret = SX1276_ERR_NONE]
    ELSE [m EXCEPT !.ret = SX1276_ERR_NONE]

configFSKStep(m, k) ==
    CASE k = 1 -> writeRegister(m, SX1276_REG_OP_MODE,
                                Or(SX1276_MODE_SLEEP, SX1276_FSK_OOK_MODE))
      [] k = 2 -> LET m1 == readRegister(m, SX1276_REG_OP_MODE)
                      opMode == IF m.r.modulation = SX1276_MODULATION_OOK
                                THEN Or(m1.val, 32) ELSE AndNot(m1.val, 32)
                  IN writeRegister(m1, SX1276_REG_OP_MODE, opMode)
      [] k = 3 -> standby(m)
      [] k = 4 -> setFrequency(m, m.r.freq)
      [] k = 5 -> setBitrate(m, m.r.bitrate)
      [] k = 6 -> IF m.r.modulation = SX1276_MODULATION_FSK
                  THEN setFrequencyDeviation(m, m.r.freqDev) ELSE m
      [] k = 7 -> setRxBandwidth(m, m.r.rxBw)
      [] k = 8 -> writeRegister(m, SX1276_REG_AFC_BW, m.r.rxBw)
      [] k = 9 -> setPower(m, m.r.power, m.r.useBoost)
      [] k = 10 -> writeRegister(m, SX1276_REG_OCP, 47)
      [] k = 11 -> writeRegister(m, SX1276_REG_RSSI_THRESH, 255)
      [] k = 12 -> writeRegister(m, SX1276_REG_RX_CONFIG, 9)
      [] k = 13 -> writeRegister(m, SX1276_REG_IRQ_FLAGS_2,
                                 SX1276_IRQ2_FIFO_OVERRUN)
      [] k = 14 -> writeRegister(m, SX1276_REG_RX_TIMEOUT_1, 0)
      [] k = 15 -> writeRegister(m, SX1276_REG_RX_TIMEOUT_2, 0)
      [] k = 16 -> writeRegister(m, SX1276_REG_RX_TIMEOUT_3, 0)
      [] k = 17 -> writeRegister(m, SX1276_REG_PREAMBLE_DETECT, 170)
      [] k = 18 -> setPreambleLength(m, m.r.preambleLengthFSK)
      [] k = 19 -> setSyncWord_bytes(m, m.r.syncWordFSK, m.r.syncWordLen)
      [] k = 20 -> setPacketConfig(m, m.r.fixedLength, m.r.crcOnFSK)
      [] k = 21 -> writeRegister(m, SX1276_REG_PAYLOAD_LENGTH_FSK,
                                 SX1276_MAX_PACKET_LENGTH)
      [] k = 22 -> writeRegister(m, SX1276_REG_FIFO_THRESH, 160)
      [] k = 23 -> writeRegister(m, SX1276_REG_SEQ_CONFIG_1, 64)
      [] k = 24 -> writeRegister(m, SX1276_REG_DIO_MAPPING_1, 0)

configFSK(m) ==
    RunSteps(configFSKStep, [m EXCEPT !.ret = SX1276_ERR_NONE], 1, 24)

configLoRaStep(m, k) ==
    CASE k = 1 -> sleep(m)
      [] k = 2 -> writeRegister(m, SX1276_REG_OP_MODE,
                                Or(SX1276_MODE_SLEEP, SX1276_LORA_MODE))
      [] k = 3 -> standby(m)
      [] k = 4 -> setFrequency(m, m.r.freq)
      [] k = 5 -> writeRegister(m, SX1276_REG_FIFO_TX_BASE_ADDR, 0)
      [] k = 6 -> writeRegister(m, SX1276_REG_FIFO_RX_BASE_ADDR, 0)
      [] k = 7 -> LET m1 == readRegister(m, SX1276_REG_LNA)
                  IN writeRegister(m1, SX1276_REG_LNA, Or(m1.val, 3))
      [] k = 8 -> writeRegister(m, SX1276_REG_MODEM_CONFIG_3, 4)
      [] k = 9 -> setPower(m, m.r.power, m.r.useBoost)
      [] k = 10 -> writeRegister(m, SX1276_REG_OCP, 59)
      [] k = 11 -> setBandwidth(m, m.r.bw)
      [] k = 12 -> setSpreadingFactor(m, m.r.sf)
      [] k = 13 -> setCodingRate(m, m.r.cr)
      [] k = 14 -> setPreambleLength(m, m.r.preambleLength)
      [] k = 15 -> setSyncWord(m, m.r.syncWord)
      [] k = 16 -> setCRC(m, m.r.crcEnabled)
      [] k = 17 -> writeRegister(m, SX1276_REG_DIO_MAPPING_1, 0)

config(m) ==
    IF m.r.modulation = SX1276_MODULATION_LORA
    THEN RunSteps(configLoRaStep, [m EXCEPT !.ret = SX1276_ERR_NONE], 1, 17)
    ELSE configFSK(m)

\* (a selector stored before it is validated)
setModulation_StoreFirst(m, modulation) ==
    LET m1 == [m EXCEPT !.r.modulation = modulation]
    IN IF modulation > SX1276_MODULATION_LORA
       THEN [m1 EXCEPT !.ret = SX1276_ERR_WRONG_MODEM]
       ELSE config(m1)

setModulation(m, modulation) ==
    IF modulation > SX1276_MODULATION_LORA
    THEN [m EXCEPT !.ret = SX1276_ERR_WRONG_MODEM]
    ELSE config([m EXCEPT !.r.modulation = modulation])

setModem(m, modem) == setModulation(m, modem)

\* the part all three begin forms share: pin set-up, reset, identity check
PinsUnbound(m) == m.r.csPin < 0 \/ m.r.rstPin < 0 \/ m.r.dio0Pin < 0

\* (a bring-up that reads the identity register and goes on whatever it is)
beginHardware_NoCheck(m) ==
    LET m1 == [m EXCEPT !.bus = Append(@, <<"cs", HIGH>>),
                        !.cs = IF m.r.csPin >= 0 THEN HIGH ELSE @]
        m2 == readRegister(reset(m1), SX1276_REG_VERSION)
    IN [m2 EXCEPT !.ret = SX1276_ERR_NONE]

beginHardware(m) ==
    LET m1 == [m EXCEPT !.bus = Append(@, <<"cs", HIGH>>),
                        !.cs = IF m.r.csPin >= 0 THEN HIGH ELSE @]
        m2 == readRegister(reset(m1), SX1276_REG_VERSION)
    IN IF m2.val # 18
       THEN [m2 EXCEPT !.ret = SX1276_ERR_CHIP_NOT_FOUND]
       ELSE [m2 EXCEPT !.ret = SX1276_ERR_NONE]

\* begin(long freq, int cs, int rst, int dio0)
begin(m, freq, csArg, rstArg, dio0Arg) ==
    LET m1 == beginHardware([m EXCEPT !.r.csPin = csArg, !.r.rstPin = rstArg,
                                      !.r.dio0Pin = dio0Arg,
                                      !.r.freq = freq])
    IN IF m1.ret # SX1276_ERR_NONE THEN m1 ELSE config(m1)

\* bandwidth in kHz (float) to register value, by the equality chain of begin
BwFromKHz(bw) ==
    CASE FltEq(bw, 7, 8000000) -> 0
      [] FltEq(bw, 10, 4000000) -> 16
      [] FltEq(bw, 15, 6000000) -> 32
      [] FltEq(bw, 20, 8000000) -> 48
      [] FltEq(bw, 31, 2500000) -> 64
      [] FltEq(bw, 41, 7000000) -> 80
      [] FltEq(bw, 62, 5000000) -> 96
      [] FltEq(bw, 125, 0) -> SX1276_BW_125_KHZ
      [] FltEq(bw, 250, 0) -> 128
      [] FltEq(bw, 500, 0) -> SX1276_BW_500_KHZ
      [] OTHER -> SX1276_BW_125_KHZ

\* begin(float freq, float bw, sf, cr, syncWord, power, preambleLength, gain)
begin_LoRa(m, freq, bw, sf, cr, syncWord, power, preambleLength) ==
    IF PinsUnbound(m) THEN [m EXCEPT !.ret = SX1276_ERR_CHIP_NOT_FOUND]
    ELSE LET m1 == beginHardware(m)
         IN IF m1.ret # SX1276_ERR_NONE THEN m1
            ELSE config([m1 EXCEPT
                    !.r.modulation = SX1276_MODULATION_LORA,
                    !.r.freq = FloatTimesMillion(freq),
                    !.r.power = power,
                    !.r.bw = BwFromKHz(bw),
                    !.r.sf = sf,
                    !.r.cr = U8((cr - 5) * 2),
                    !.r.preambleLength = preambleLength,
                    !.r.syncWord = syncWord,
                    !.r.crcEnabled = TRUE])

\* RX bandwidth in kHz (float) to register value, by the <= chain of beginFSK
RxBwFromKHz(rxBw) ==
    CASE FltLe(rxBw, 2, 6000000) -> 23
      [] FltLe(rxBw, 3, 9000000) -> 7
      [] FltLe(rxBw, 5, 2000000) -> 22
      [] FltLe(rxBw, 7, 8000000) -> 6
      [] FltLe(rxBw, 10, 4000000) -> SX1276_RX_BW_10_4_KHZ_FSK
      [] FltLe(rxBw, 15, 6000000) -> 5
      [] FltLe(rxBw, 20, 8000000) -> 20
      [] FltLe(rxBw, 31, 3000000) -> 4
      [] FltLe(rxBw, 41, 7000000) -> 19
      [] FltLe(rxBw, 62, 5000000) -> 3
      [] FltLe(rxBw, 125, 0) -> SX1276_RX_BW_125_0_KHZ_FSK
      [] OTHER -> SX1276_RX_BW_250_0_KHZ_FSK

\* beginFSK(float freq, float br, float freqDev, float rxBw, power,
\*          preambleLength, enableOOK)
beginFSK(m, freq, br, freqDev, rxBw, power, preambleLength, enableOOK) ==
    IF PinsUnbound(m) THEN [m EXCEPT !.ret = SX1276_ERR_CHIP_NOT_FOUND]
    ELSE LET m1 == beginHardware(m)
         IN IF m1.ret # SX1276_ERR_NONE THEN m1
            ELSE config([m1 EXCEPT
                    !.r.modulation = IF enableOOK THEN SX1276_MODULATION_OOK
                                     ELSE SX1276_MODULATION_FSK,
                    !.r.freq = FloatTimesMillion(freq),
                    !.r.power = power,
                    !.r.bitrate = FloatTimesThousand(br),
                    !.r.freqDev = FloatTimesThousand(freqDev),
                    !.r.preambleLengthFSK = preambleLength,
                    !.r.rxBw = RxBwFromKHz(rxBw)])

\* end(): sleep, then release the SPI peripheral
end(m) == sleep(m)


\* ------------------------------------------------------ transceiver
\* (a loop that stops after the first byte)
WriteBurst_OneByte(m, data, i, len) ==
    IF i >= len THEN m ELSE spiTransfer(m, data[i + 1])

\* for (i = 0; i < len; i++) spiTransfer(data[i]);
RECURSIVE WriteBurst(_, _, _, _)
WriteBurst(m, data, i, len) ==
    IF i >= len THEN m
    ELSE WriteBurst(spiTransfer(m, data[i + 1]), data, i + 1, len)

\* (a loop that fetches each byte with a register read of the FIFO address)
RECURSIVE ReadBurst_PerRegister(_, _, _)
ReadBurst_PerRegister(m, i, len) ==
    IF i >= len THEN m
    ELSE LET m1 == readRegister(m, SX1276_REG_FIFO)
         IN ReadBurst_PerRegister([m1 EXCEPT !.buf[i + 1] = m1.val],
                                  i + 1, len)

\* for (i = 0; i < len; i++) data[i] = spiTransfer(0x00);
RECURSIVE ReadBurst(_, _, _)
ReadBurst(m, i, len) ==
    IF i >= len THEN m
    ELSE LET m1 == spiTransfer(m, 0)
         IN ReadBurst([m1 EXCEPT !.buf[i + 1] = m1.val], i + 1, len)

\* (a comparison of millis() with start + limit that does not wrap)
TimedOut_Unwrapped(t, t0, limit) ==
    LET hi == t0.hi + (t0.lo + limit) \div 65536
        lo == (t0.lo + limit) % 65536
    IN t.hi > hi \/ (t.hi = hi /\ t.lo > lo)

\* (a ceiling that is reached, not exceeded)
TimedOut_AtCeiling(t, t0, limit) == U32Gt(U32Sub(t, t0), limit - 1)

\* millis() - start > limit, in 32-bit unsigned arithmetic
TimedOut(t, t0, limit) == U32Gt(U32Sub(t, t0), limit)

TooLong(len) == len > SX1276_MAX_PACKET_LENGTH

\* (a rejection that first puts the chip in standby, as the other failure
\* paths of transmit do)
rejectTooLong_AfterStandby(m) ==
    [standby(m) EXCEPT !.ret = SX1276_ERR_PACKET_TOO_LONG]

\* the early return of transmit
rejectTooLong(m) == [m EXCEPT !.ret = SX1276_ERR_PACKET_TOO_LONG]

\* transmit up to the start of its polling loop
transmitStart(m, data, len) ==
    IF TooLong(len) THEN rejectTooLong(m)
    ELSE
    LET s0 == standby(m) IN
    IF s0.ret # SX1276_ERR_NONE THEN s0
    ELSE IF s0.r.modulation = SX1276_MODULATION_LORA
    THEN LET s1 == writeRegister(s0, SX1276_REG_DIO_MAPPING_1, 64)
             s2 == writeRegister(s1, SX1276_REG_IRQ_FLAGS, 255)
             s3 == writeRegister(s2, SX1276_REG_FIFO_ADDR_PTR, 0)
             s4 == spiTransfer(spiBegin(s3), Or(SX1276_REG_FIFO, 128))
             s5 == spiEnd(WriteBurst(s4, data, 0, len))
             s6 == writeRegister(s5, SX1276_REG_PAYLOAD_LENGTH, len)
             s7 == setMode(s6, SX1276_MODE_TX)
         IN [s7 EXCEPT !.pc = "tx_lora"]
    ELSE IF s0.r.modulation \in {SX1276_MODULATION_FSK, SX1276_MODULATION_OOK}
    THEN LET s1 == writeRegister(s0, SX1276_REG_PAYLOAD_LENGTH_FSK, len)
             s2 == spiTransfer(spiBegin(s1), Or(SX1276_REG_FIFO, 128))
             s3 == IF ~s0.r.fixedLength THEN spiTransfer(s2, U8(len)) ELSE s2
             s4 == spiEnd(WriteBurst(s3, data, 0, len))
             s5 == setMode(s4, SX1276_MODE_TX)
         IN [s5 EXCEPT !.pc = "tx_fsk"]
    ELSE s0

\* (a timeout path that returns without the standby request)
onTimeout_NoStandby(m, code) == [m EXCEPT !.ret = code, !.pc = "done"]

\* (a timeout path that starts the operation again and stays in the loop)
onTimeout_Retry(m, code) ==
    [setMode(m, IF code = SX1276_ERR_TX_TIMEOUT THEN SX1276_MODE_TX
                ELSE SX1276_MODE_RX_CONTINUOUS) EXCEPT !.pc = m.pc]

\* what a timed-out polling loop does before it returns
onTimeout(m, code) == [standby(m) EXCEPT !.ret = code, !.pc = "done"]

\* one iteration of the LoRa polling loop of transmit, and what follows it
transmitPollLoRa(m, late) ==
    IF digitalRead_dio0(m) = LOW
    THEN IF late THEN onTimeout(m, SX1276_ERR_TX_TIMEOUT) ELSE m
    ELSE LET s1 == writeRegister(m, SX1276_REG_IRQ_FLAGS, 255)
         IN [standby(s1) EXCEPT !.pc = "done"]

\* one iteration of the FSK/OOK polling loop of transmit, and what follows
transmitPollFSK(m, late) ==
    LET s0 == readRegister(m, SX1276_REG_IRQ_FLAGS_2) IN
    IF And(s0.val, SX1276_IRQ2_PACKET_SENT) = 0
    THEN IF late THEN onTimeout(s0, SX1276_ERR_TX_TIMEOUT) ELSE s0
    ELSE [standby(s0) EXCEPT !.pc = "done"]

\* receive up to the start of its polling loop
receiveStart(m) ==
    IF m.r.modulation = SX1276_MODULATION_LORA
    THEN LET s0 == standby(m) IN
         IF s0.ret # SX1276_ERR_NONE THEN s0
         ELSE LET s1 == writeRegister(s0, SX1276_REG_DIO_MAPPING_1, 0)
                  s2 == writeRegister(s1, SX1276_REG_IRQ_FLAGS, 255)
                  s3 == writeRegister(s2, SX1276_REG_FIFO_ADDR_PTR, 0)
                  s4 == setMode(s3, SX1276_MODE_RX_CONTINUOUS)
              IN [s4 EXCEPT !.pc = "rx_lora"]
    ELSE IF m.r.modulation \in {SX1276_MODULATION_FSK, SX1276_MODULATION_OOK}
    THEN LET s0 == standby(m) IN
         IF s0.ret # SX1276_ERR_NONE THEN s0
         ELSE LET s1 == writeRegister(s0, SX1276_REG_IRQ_FLAGS_1, 255)
                  s2 == writeRegister(s1, SX1276_REG_IRQ_FLAGS_2, 255)
                  s3 == setMode(s2, SX1276_MODE_RX_CONTINUOUS)
              IN [s3 EXCEPT !.pc = "rx_fsk"]
    ELSE [m EXCEPT !.ret = SX1276_ERR_WRONG_MODEM]

\* (a length taken as the chip reports it, whatever room the caller has)
ClampLen_Off(len, maxLen) == len

\* uint8_t len clamped to maxLen
ClampLen(len, maxLen) == IF len > maxLen THEN maxLen ELSE len

\* (a LoRa receive that copies the payload without looking at the CRC flag)
receiveDoneLoRa_NoCheck(m, maxLen) ==
    LET s0 == readRegister(m, SX1276_REG_IRQ_FLAGS)
        s1 == readRegister(s0, SX1276_REG_RX_NB_BYTES)
        len == ClampLen(s1.val, maxLen)
        s2 == readRegister(s1, SX1276_REG_FIFO_RX_CURRENT_ADDR)
        s3 == writeRegister(s2, SX1276_REG_FIFO_ADDR_PTR, s2.val)
        s4 == spiTransfer(spiBegin(s3), SX1276_REG_FIFO)
        s5 == spiEnd(ReadBurst(s4, 0, len))
        s6 == writeRegister(s5, SX1276_REG_IRQ_FLAGS, 255)
    IN [standby(s6) EXCEPT !.ret = len, !.pc = "done"]

\* LoRa receive after the data-ready line went high
receiveDoneLoRa(m, maxLen) ==
    LET s0 == readRegister(m, SX1276_REG_IRQ_FLAGS) IN
    IF And(s0.val, SX1276_IRQ_PAYLOAD_CRC_ERROR) # 0
    THEN LET s1 == writeRegister(s0, SX1276_REG_IRQ_FLAGS, 255)
         IN [standby(s1) EXCEPT !.ret = SX1276_ERR_CRC_MISMATCH, !.pc = "done"]
    ELSE LET s1 == readRegister(s0, SX1276_REG_RX_NB_BYTES)
             len == ClampLen(s1.val, maxLen)
             s2 == readRegister(s1, SX1276_REG_FIFO_RX_CURRENT_ADDR)
             s3 == writeRegister(s2, SX1276_REG_FIFO_ADDR_PTR, s2.val)
             s4 == spiTransfer(spiBegin(s3), SX1276_REG_FIFO)
             s5 == spiEnd(ReadBurst(s4, 0, len))
             s6 == writeRegister(s5, SX1276_REG_IRQ_FLAGS, 255)
         IN [standby(s6) EXCEPT !.ret = len, !.pc = "done"]

receivePollLoRa(m, maxLen, late) ==
    IF digitalRead_dio0(m) = LOW
    THEN IF late THEN onTimeout(m, SX1276_ERR_RX_TIMEOUT) ELSE m
    ELSE receiveDoneLoRa(m, maxLen)

\* FSK/OOK receive from the RSSI read on: cache RSSI, read length and data
receivePayloadFSK(m, maxLen) ==
    LET s0 == readRegister(m, SX1276_REG_RSSI_VALUE_FSK)
        s1 == [s0 EXCEPT !.r.lastRSSI = -(s0.val \div 2)]
    IN IF s1.r.fixedLength
       THEN LET s2 == readRegister(s1, SX1276_REG_PAYLOAD_LENGTH_FSK)
                len == ClampLen(s2.val, maxLen)
                s3 == spiTransfer(spiBegin(s2), SX1276_REG_FIFO)
                s4 == spiEnd(ReadBurst(s3, 0, len))
            IN [standby(s4) EXCEPT !.ret = len, !.pc = "done"]
       ELSE LET s2 == spiTransfer(spiBegin(s1), SX1276_REG_FIFO)
                s3 == spiTransfer(s2, 0)
                len == ClampLen(s3.val, maxLen)
                s4 == spiEnd(ReadBurst(s3, 0, len))
            IN [standby(s4) EXCEPT !.ret = len, !.pc = "done"]

\* (a receive that caches the RSSI as soon as the payload is ready, before
\* it looks at the CRC flag)
receiveDoneFSK_CacheFirst(m, maxLen) ==
    LET s0 == readRegister(m, SX1276_REG_RSSI_VALUE_FSK)
        s1 == [s0 EXCEPT !.r.lastRSSI = -(s0.val \div 2)]
        s2 == readRegister(s1, SX1276_REG_IRQ_FLAGS_2)
    IN IF s1.r.crcOnFSK /\ And(s2.val, SX1276_IRQ2_CRC_OK) = 0
       THEN [standby(s2) EXCEPT !.ret = SX1276_ERR_CRC_MISMATCH,
                                !.pc = "done"]
       ELSE receivePayloadFSK(s1, maxLen)

\* FSK/OOK receive after the payload-ready flag was seen
receiveDoneFSK(m, maxLen) ==
    IF m.r.crcOnFSK
    THEN LET s0 == readRegister(m, SX1276_REG_IRQ_FLAGS_2) IN
         IF And(s0.val, SX1276_IRQ2_CRC_OK) = 0
         THEN [standby(s0) EXCEPT !.ret = SX1276_ERR_CRC_MISMATCH,
                                  !.pc = "done"]
         ELSE receivePayloadFSK(s0, maxLen)
    ELSE receivePayloadFSK(m, maxLen)

\* ------------------------------------------------------ frequency error
\* the switch of getFrequencyError: stored bandwidth encoding to Hz
BwHz(bw) ==
    CASE bw = SX1276_BW_7_8_KHZ -> 7800
      [] bw = SX1276_BW_10_4_KHZ -> 10400
      [] bw = SX1276_BW_15_6_KHZ -> 15600
      [] bw = SX1276_BW_20_8_KHZ -> 20800
      [] bw = SX1276_BW_31_25_KHZ -> 31250
      [] bw = SX1276_BW_41_7_KHZ -> 41700
      [] bw = SX1276_BW_62_5_KHZ -> 62500
      [] bw = SX1276_BW_125_KHZ -> 125000
      [] bw = SX1276_BW_250_KHZ -> 250000
      [] bw = SX1276_BW_500_KHZ -> 500000
      [] OTHER -> 125000

\* rawError before the sign is handled: the 20-bit field of three bytes
RawError(msb, mid, lsb) == And(msb, 15) * 65536 + mid * 256 + lsb
\* (int32_t)rawError after "rawError |= 0xFFF00000" when bit 19 is set
SignExtend20(raw) == IF raw >= 524288 THEN raw - 1048576 ELSE raw

Abs(x) == IF x < 0 THEN -x ELSE x
\* C++ integer division truncates toward zero; d > 0
TruncDiv(x, d) == IF x >= 0 THEN x \div d ELSE (x + d - 1) \div d

\* Does the int32_t product s * bwHz fit in 32 bits?  No bwHz of the switch
\* divides 2^31, so the bound on |s| is the same on both sides of zero.
ProductFits(s, bwHz) == Abs(s) <= 2147483647 \div bwHz

\* trunc(s * bwHz / 2^19), the product taken exactly: with |s| = ah * 2^10
\* + al its quotient is floor((ah * bwHz + floor(al * bwHz / 2^10)) / 2^9)
ExactQuotient(s, bwHz) ==
    LET a == Abs(s)
        q == ((a \div 1024) * bwHz + ((a % 1024) * bwHz) \div 1024) \div 512
    IN IF s < 0 THEN -q ELSE q

\* the low 32 bits of |s| * bwHz, as two 16-bit halves
ProductBits(s, bwHz) ==
    LET a == Abs(s)
        x == (a \div 1024) * bwHz
        y == (a % 1024) * bwHz
        lo == (x % 64) * 1024 + (y % 65536)
    IN [hi |-> (x \div 64 + y \div 65536 + lo \div 65536) % 65536,
        lo |-> lo % 65536]

\* trunc(p / 2^19) for the product p wrapped to 32 bits, two's complement
WrappedQuotient(s, bwHz) ==
    LET mag == ProductBits(s, bwHz)
        bits == IF s < 0 THEN U32Sub(U32Of(0), mag) ELSE mag
        p == IF bits.hi >= 32768 THEN (bits.hi - 65536) * 65536 + bits.lo
             ELSE bits.hi * 65536 + bits.lo
    IN TruncDiv(p, 524288)

\* int32_t getFrequencyError().  A product that does not fit in int32_t is
\* signed overflow, which the language leaves undefined: the build either
\* wraps it to 32 bits or carries it in a wider register.
getFrequencyError(m, wraps) ==
    LET m1 == readRegister(m, SX1276_REG_FREQ_ERROR_MSB)
        m2 == readRegister(m1, SX1276_REG_FREQ_ERROR_MID)
        m3 == readRegister(m2, SX1276_REG_FREQ_ERROR_LSB)
        s == SignExtend20(RawError(m1.val, m2.val, m3.val))
        bwHz == BwHz(m.r.bw)
    IN [m3 EXCEPT !.ret = IF ProductFits(s, bwHz) \/ ~wraps
                          THEN ExactQuotient(s, bwHz)
                          ELSE WrappedQuotient(s, bwHz)]

\* int16_t getRSSI_FSK(): the cached value
getRSSI_FSK(m) == [m EXCEPT !.ret = m.r.lastRSSI]

receivePollFSK(m, maxLen, late) ==
    LET s0 == readRegister(m, SX1276_REG_IRQ_FLAGS_2) IN
    IF And(s0.val, SX1276_IRQ2_PAYLOAD_READY) = 0
    THEN IF late THEN onTimeout(s0, SX1276_ERR_RX_TIMEOUT) ELSE s0
    ELSE receiveDoneFSK(s0, maxLen)


\* ------------------------------------------------------ construction
\* SX1276::SX1276(cs, irq, rst); the default constructor is the case -1,-1,-1
SX1276_ctor(csArg, irq, rstArg) ==
    [csPin |-> csArg, rstPin |-> rstArg, dio0Pin |-> irq,
     freq |-> 0, power |-> 17, useBoost |-> TRUE,
     modulation |-> SX1276_MODULATION_LORA,
     bw |-> SX1276_BW_125_KHZ, sf |-> SX1276_SF_7, cr |-> SX1276_CR_4_5,
     preambleLength |-> 8, syncWord |-> 18, crcEnabled |-> TRUE,
     bitrate |-> 4800, freqDev |-> 5000,
     rxBw |-> SX1276_RX_BW_10_4_KHZ_FSK,
     syncWordFSK |-> <<18, 173, 0, 0, 0, 0, 0, 0>>, syncWordLen |-> 2,
     preambleLengthFSK |-> 5, fixedLength |-> FALSE, crcOnFSK |-> TRUE,
     lastRSSI |-> 0]

\* ------------------------------------------------------ sampled inputs
\* pin numbers a sketch binds the radio to
Pins == [cs |-> 10, rst |-> 9, dio0 |-> 2]
\* what a bus read returns while the chip is not selected
FloatReads == {0, 255}
\* the caller's array of n bytes handed to transmit
Payload(n) == [i \in 1 .. n |-> i % 256]
\* len arguments of transmit
TxLens == {0, MaxLen, SX1276_MAX_PACKET_LENGTH + 1}
\* size of the caller's receive buffer, and the maxLen arguments of receive
BufSize == MaxLen + 1
RxMaxLens == {0, MaxLen}
\* packet lengths the chip reports
RxLens == {1, MaxLen + 1}
\* raw RSSI readings
RssiRaw == {91, 120}
\* values of millis() when a polling loop starts: early, and 2500 ms
\* before the 32-bit clock wraps
StartTimes == {U32Of(0), [hi |-> 65535, lo |-> 63035]}
\* time that passes between two iterations of a polling loop
TickSteps == {5000, 5001}
\* carrier frequencies in Hz
Freqs == {434000000}
\* packet formats: variable length with CRC (the default), fixed without
PacketConfigs == {<<FALSE, TRUE>>, <<TRUE, FALSE>>}

\* setter arguments: legal values and the nearest illegal ones
FreqArgs == {136999999, 434000000, 1020000001}
BwArgs == {SX1276_BW_125_KHZ, SX1276_BW_500_KHZ + 1}
SfArgs == {SX1276_SF_6 - 1, SX1276_SF_7, SX1276_SF_12 + 1}
CrArgs == {SX1276_CR_4_5 - 1, SX1276_CR_4_5, SX1276_CR_4_8 + 1}
BitrateArgs == {1199, 4800, 300001}
FreqDevArgs == {0, 599, 5000, 200001}
SyncLenArgs == {0, 2, 9}
\* the sync word bytes a sketch passes
SyncBytes == <<18, 173, 0, 0, 0, 0, 0, 0>>
\* values a sketch writes to the operating-mode register by writeRegister:
\* LoRa standby and FSK standby
OpModeSamples == {129, 1}
\* arguments <<freq MHz, bw kHz, sf, cr>> of the RadioLib-style begin:
\* legal, and spreading factor 13
LoRaBegins == {<<Flt(434, 0), Flt(125, 0), 7, 6>>,
               <<Flt(434, 0), Flt(125, 0), 13, 6>>}
\* arguments <<freq MHz, br kbps, freqDev kHz, rxBw kHz>> of beginFSK:
\* legal (4.8f, 5.0f, 10.4f), bit rate 0.5 kbps
FSKBegins == {<<Flt(434, 0), Flt(4, 8000001), Flt(5, 0), Flt(10, 3999996)>>,
              <<Flt(434, 0), Flt(0, 5000000), Flt(5, 0), Flt(10, 3999996)>>}

\* the caller's buffer before receive: -1 marks a position never written
EmptyBuf == [i \in 1 .. BufSize |-> -1]

\* ------------------------------------------------------ initial state
InitChip(version) ==
    /\ regs = PowerOnRegs([a \in Addr |-> version])
    /\ fifo = <<>>
    /\ cs = HIGH
    /\ xfer = NoXfer

InitCall ==
    /\ bus = <<>>
    /\ buf = EmptyBuf
    /\ pc = "idle"
    /\ ret = SX1276_ERR_NONE
    /\ op = "none"
    /\ arg = 0
    /\ now = U32Of(0)
    /\ start = U32Of(0)
    /\ calls = 0

\* a radio constructed with its pins, the chip present
InitBound ==
    /\ radio = SX1276_ctor(Pins.cs, Pins.dio0, Pins.rst)
    /\ InitChip(18)
    /\ InitCall

\* a default-constructed radio: no pin bound
InitUnbound ==
    /\ radio = SX1276_ctor(-1, -1, -1)
    /\ InitChip(18)
    /\ InitCall

\* what the identity register reads when the chip is absent or another part
WrongVersions == {0, 34, 255}
\* a radio constructed with its pins, the chip not an SX1276
InitAbsent ==
    /\ radio = SX1276_ctor(Pins.cs, Pins.dio0, Pins.rst)
    /\ \E version \in WrongVersions : InitChip(version)
    /\ InitCall

Init == InitBound

\* ------------------------------------------------------ actions
Idle == pc = "idle"
\* the sketch makes up to MaxCalls calls, then brings the radio up again
CanCall == Idle /\ calls < MaxCalls
CanConfigure == Idle /\ calls < MaxCfgCalls
\* what a read returns when nothing drives the line: matters only while a
\* pin is unbound
Floats == IF PinsUnbound(Machine(0)) THEN FloatReads ELSE {0}
Polling == pc \in {"tx_lora", "tx_fsk", "rx_lora", "rx_fsk"}

\* the machine a call that is polling continues on
Resume(float) == [Machine(float) EXCEPT !.bus = bus, !.pc = pc]

Commit(m, name, a) ==
    /\ radio' = m.r
    /\ regs' = m.regs
    /\ fifo' = m.fifo
    /\ cs' = m.cs
    /\ xfer' = m.xfer
    /\ bus' = m.bus
    /\ buf' = m.buf
    /\ pc' = m.pc
    /\ ret' = m.ret
    /\ op' = name
    /\ arg' = a

\* a call that returns without polling
Returns(m, name, a) ==
    /\ Commit(m, name, a)
    /\ calls' = calls + 1
    /\ UNCHANGED <<now, start>>

\* a bring-up call: the count of calls starts again
BringsUp(m, name, a) ==
    /\ Commit(m, name, a)
    /\ calls' = 0
    /\ UNCHANGED <<now, start>>

\* a call that may enter its polling loop: start = millis()
Enters(m, name, a) ==
    /\ Commit(m, name, a)
    /\ calls' = calls + 1
    /\ IF m.pc = "done" THEN UNCHANGED <<now, start>>
       ELSE now' \in StartTimes /\ start' = now'

\* The caller takes the result and goes on.  The record of the call is
\* dropped, and so is what the call left unread in the FIFO: the next packet
\* replaces it before any read.  The clock is read only inside a loop.
CallerContinues ==
    /\ pc = "done"
    /\ pc' = "idle"
    /\ bus' = <<>>
    /\ buf' = EmptyBuf
    /\ ret' = SX1276_ERR_NONE
    /\ op' = "none"
    /\ arg' = 0
    /\ fifo' = <<>>
    /\ now' = U32Of(0)
    /\ start' = U32Of(0)
    /\ UNCHANGED <<radio, regs, cs, xfer, calls>>

Begin ==
    /\ Idle
    /\ \E f \in Freqs :
          BringsUp(begin(Machine(0), f, Pins.cs, Pins.rst, Pins.dio0),
                   "begin", 0)

SetModulation ==
    /\ CanConfigure
    /\ \E md \in 0 .. 3, fl \in Floats :
          Returns(setModulation(Machine(fl), md), "setModulation", 0)

Standby ==
    /\ CanCall
    /\ \E fl \in Floats : Returns(standby(Machine(fl)), "standby", 0)

Sleep ==
    /\ CanCall
    /\ \E fl \in Floats : Returns(sleep(Machine(fl)), "sleep", 0)

End ==
    /\ CanCall
    /\ \E fl \in Floats : Returns(end(Machine(fl)), "end", 0)

SetPacketConfig ==
    /\ CanConfigure
    /\ \E pk \in PacketConfigs, fl \in Floats :
          Returns(setPacketConfig(Machine(fl), pk[1], pk[2]),
                  "setPacketConfig", 0)

Transmit ==
    /\ CanCall
    /\ \E len \in TxLens, fl \in Floats :
          Enters(transmitStart(Machine(fl), Payload(len), len),
                 "transmit", len)

Receive ==
    /\ CanCall
    /\ \E maxLen \in RxMaxLens, fl \in Floats :
          Enters(receiveStart(Machine(fl)), "receive", maxLen)

\* ------------------------------------------------------ configuration
BeginLoRa ==
    /\ Idle
    /\ \E a \in LoRaBegins, fl \in Floats :
          BringsUp(begin_LoRa(Machine(fl), a[1], a[2], a[3], a[4], 18, 17, 8),
                   "begin_LoRa", a[3])

BeginFSK ==
    /\ Idle
    /\ \E a \in FSKBegins, ook \in BOOLEAN, fl \in Floats :
          BringsUp(beginFSK(Machine(fl), a[1], a[2], a[3], a[4], 17, 5, ook),
                   "beginFSK", FloatTimesThousand(a[2]))

SetFrequency ==
    /\ CanConfigure
    /\ \E f \in FreqArgs, fl \in Floats :
          Returns(setFrequency(Machine(fl), f), "setFrequency", f)

SetPower ==
    /\ CanConfigure
    /\ \E fl \in Floats :
          Returns(setPower(Machine(fl), 17, TRUE), "setPower", 17)

SetBandwidth ==
    /\ CanConfigure
    /\ \E bw \in BwArgs, fl \in Floats :
          Returns(setBandwidth(Machine(fl), bw), "setBandwidth", bw)

SetSpreadingFactor ==
    /\ CanConfigure
    /\ \E sf \in SfArgs, fl \in Floats :
          Returns(setSpreadingFactor(Machine(fl), sf),
                  "setSpreadingFactor", sf)

SetCodingRate ==
    /\ CanConfigure
    /\ \E cr \in CrArgs, fl \in Floats :
          Returns(setCodingRate(Machine(fl), cr), "setCodingRate", cr)

SetPreambleLength ==
    /\ CanConfigure
    /\ \E fl \in Floats :
          Returns(setPreambleLength(Machine(fl), 8), "setPreambleLength", 8)

SetSyncWord ==
    /\ CanConfigure
    /\ \E fl \in Floats :
          Returns(setSyncWord(Machine(fl), 18), "setSyncWord", 18)

SetCRC ==
    /\ CanConfigure
    /\ \E fl \in Floats :
          Returns(setCRC(Machine(fl), TRUE), "setCRC", 1)

SetBitrate ==
    /\ CanConfigure
    /\ \E br \in BitrateArgs, fl \in Floats :
          Returns(setBitrate(Machine(fl), br), "setBitrate", br)

SetFrequencyDeviation ==
    /\ CanConfigure
    /\ \E fd \in FreqDevArgs, fl \in Floats :
          Returns(setFrequencyDeviation(Machine(fl), fd),
                  "setFrequencyDeviation", fd)

SetRxBandwidth ==
    /\ CanConfigure
    /\ \E fl \in Floats :
          Returns(setRxBandwidth(Machine(fl), SX1276_RX_BW_10_4_KHZ_FSK),
                  "setRxBandwidth", SX1276_RX_BW_10_4_KHZ_FSK)

SetSyncWordBytes ==
    /\ CanConfigure
    /\ \E len \in SyncLenArgs, fl \in Floats :
          Returns(setSyncWord_bytes(Machine(fl), SyncBytes, len),
                  "setSyncWord_bytes", len)

\* writeRegister as a public call, on the operating-mode register
WriteRegisterOp ==
    /\ CanConfigure
    /\ \E v \in OpModeSamples, fl \in Floats :
          Returns(writeRegister(Machine(fl), SX1276_REG_OP_MODE, v),
                  "writeRegister", v)

\* readRegister as a public call; the value read is what it returns
ReadRegisterOp ==
    /\ CanConfigure
    /\ \E a \in {SX1276_REG_OP_MODE, SX1276_REG_VERSION}, fl \in Floats :
          LET m == readRegister(Machine(fl), a)
          IN Returns([m EXCEPT !.ret = m.val], "readRegister", a)

GetRSSI_FSK ==
    /\ CanCall
    /\ Returns(getRSSI_FSK(Machine(0)), "getRSSI_FSK", 0)

\* One iteration of the polling loop of transmit, some time after the
\* previous one: the call returns, or yields and stays in the loop.
TransmitPoll ==
    /\ pc \in {"tx_lora", "tx_fsk"}
    /\ \E d \in TickSteps, fl \in Floats :
          /\ now' = U32Add(now, d)
          /\ LET late == TimedOut(now', start, TX_TIMEOUT_MS)
             IN Commit(IF pc = "tx_lora"
                       THEN transmitPollLoRa(Resume(fl), late)
                       ELSE transmitPollFSK(Resume(fl), late), op, arg)
    /\ UNCHANGED <<start, calls>>

ReceivePoll ==
    /\ pc \in {"rx_lora", "rx_fsk"}
    /\ \E d \in TickSteps, fl \in Floats :
          /\ now' = U32Add(now, d)
          /\ LET late == TimedOut(now', start, RX_TIMEOUT_MS)
             IN Commit(IF pc = "rx_lora"
                       THEN receivePollLoRa(Resume(fl), arg, late)
                       ELSE receivePollFSK(Resume(fl), arg, late), op, arg)
    /\ UNCHANGED <<start, calls>>

\* ------------------------------------------------------ environment
\* the chip finishes sending: TxDone (LoRa) or PacketSent (FSK/OOK)
ChipTxDone ==
    /\ Polling
    /\ ModeField(regs[SX1276_REG_OP_MODE]) = SX1276_MODE_TX
    /\ regs' = IF ChipIsLoRa(regs)
               THEN [regs EXCEPT ![SX1276_REG_IRQ_FLAGS] =
                                    Or(@, SX1276_IRQ_TX_DONE)]
               ELSE [regs EXCEPT ![SX1276_REG_IRQ_FLAGS_2] =
                                    Or(@, SX1276_IRQ2_PACKET_SENT)]
    /\ regs' # regs
    /\ UNCHANGED <<radio, fifo, cs, xfer, bus, buf, pc, ret, op, arg, now,
                   start, calls>>

\* the chip has received a packet of n bytes, with or without a CRC failure
ChipRxDone ==
    /\ Polling
    /\ ModeField(regs[SX1276_REG_OP_MODE]) = SX1276_MODE_RX_CONTINUOUS
    /\ \E n \in RxLens, crcBad \in BOOLEAN, rssi \in RssiRaw :
          IF ChipIsLoRa(regs)
          THEN /\ And(regs[SX1276_REG_IRQ_FLAGS], SX1276_IRQ_RX_DONE) = 0
               /\ regs' = [regs EXCEPT
                     ![SX1276_REG_IRQ_FLAGS] =
                         Or(@, SX1276_IRQ_RX_DONE
                               + (IF crcBad THEN SX1276_IRQ_PAYLOAD_CRC_ERROR
                                  ELSE 0)),
                     ![SX1276_REG_RX_NB_BYTES] = n,
                     ![SX1276_REG_FIFO_RX_CURRENT_ADDR] = 0]
               /\ fifo' = Payload(n)
          ELSE /\ And(regs[SX1276_REG_IRQ_FLAGS_2],
                      SX1276_IRQ2_PAYLOAD_READY) = 0
               /\ regs' = [regs EXCEPT
                     ![SX1276_REG_IRQ_FLAGS_2] =
                         Or(@, SX1276_IRQ2_PAYLOAD_READY
                               + (IF crcBad THEN 0 ELSE SX1276_IRQ2_CRC_OK)),
                     ![SX1276_REG_RSSI_VALUE_FSK] = rssi]
               /\ fifo' = IF And(regs[SX1276_REG_PACKET_CONFIG_1], 128) # 0
                          THEN Payload(regs[SX1276_REG_PAYLOAD_LENGTH_FSK])
                          ELSE <<n>> \o Payload(n)
    /\ UNCHANGED <<radio, cs, xfer, bus, buf, pc, ret, op, arg, now, start,
                   calls>>

Next ==
    \/ Begin
    \/ SetModulation
    \/ Standby
    \/ Sleep
    \/ End
    \/ SetPacketConfig
    \/ Transmit
    \/ Receive
    \/ TransmitPoll
    \/ ReceivePoll
    \/ ChipTxDone
    \/ ChipRxDone
    \/ GetRSSI_FSK
    \/ CallerContinues

\* The transceiver: a radio constructed with its pins, brought up, switched
\* between the families, and used to send and receive.
Spec == Init /\ [][Next]_vars

\* millis() read by the next iteration of a polling loop is later than the
\* one before: a step of TransmitPoll or ReceivePoll, seen on the clock only
ClockAdvances == Polling /\ \E d \in TickSteps : now' = U32Add(now, d)

\* The same with the scheduling the loops rely on: the clock keeps advancing
\* and a call that is polling is given its next iteration.
SpecFair == Spec /\ WF_now(ClockAdvances)

\* Configuration: the bring-up forms, the setters with legal and illegal
\* arguments, and direct register access.
NextCfg ==
    \/ Begin
    \/ BeginLoRa
    \/ BeginFSK
    \/ SetModulation
    \/ SetFrequency
    \/ SetPower
    \/ SetBandwidth
    \/ SetSpreadingFactor
    \/ SetCodingRate
    \/ SetSyncWord
    \/ SetCRC
    \/ SetBitrate
    \/ SetFrequencyDeviation
    \/ SetRxBandwidth
    \/ SetSyncWordBytes
    \/ SetPacketConfig
    \/ Standby
    \/ Sleep
    \/ WriteRegisterOp
    \/ ReadRegisterOp
    \/ CallerContinues

SpecCfg == InitBound /\ [][NextCfg]_vars

\* A default-constructed radio, used without binding its pins.
NextUnbound ==
    \/ BeginLoRa
    \/ BeginFSK
    \/ SetModulation
    \/ SetFrequency
    \/ SetPower
    \/ SetBandwidth
    \/ SetSpreadingFactor
    \/ SetCodingRate
    \/ SetPreambleLength
    \/ SetSyncWord
    \/ SetCRC
    \/ SetBitrate
    \/ SetFrequencyDeviation
    \/ SetRxBandwidth
    \/ SetSyncWordBytes
    \/ SetPacketConfig
    \/ Standby
    \/ Sleep
    \/ WriteRegisterOp
    \/ ReadRegisterOp
    \/ Transmit
    \/ Receive
    \/ TransmitPoll
    \/ ReceivePoll
    \/ CallerContinues

SpecUnbound == InitUnbound /\ [][NextUnbound]_vars

\* ------------------------------------------------------ argument sweeps
\* frequencies in Hz: the ends of the legal range and their neighbours, the
\* ISM bands, and one full period of the register conversion (15625 Hz are
\* exactly 256 frequency steps)
FreqSweep ==
    {136999999, 137000000, 868000000, 915000000, 1020000000, 1020000001}
    \cup (434000000 .. 434015624)
\* int8_t power, uint8_t bw, uint8_t cr
PowerSweep == -128 .. 127
ByteSweep == 0 .. 255
\* values the shared modem-config register holds before a setter runs
\* an eight-byte sync word, every byte different, and the lengths passed
FullSyncWord == <<1, 35, 69, 103, 137, 171, 205, 239>>
SyncLenSweep == 0 .. 9
\* the coding-rate denominators begin documents (SX1276.h: range 5-8)
CodingRateDenominators == 5 .. 8
ModemConfigPresets == {15, 122, 255}

\* the sketch prepares the shared modem-config register, before the one
\* setter call
PresetModemConfig ==
    /\ Idle /\ calls = 0
    /\ regs[SX1276_REG_MODEM_CONFIG_1] = 0
    /\ \E v \in ModemConfigPresets :
          Commit(writeRegister(Machine(0), SX1276_REG_MODEM_CONFIG_1, v),
                 "writeRegister", v)
    /\ UNCHANGED <<now, start, calls>>

SweepFrequency ==
    /\ Idle /\ calls = 0
    /\ regs[SX1276_REG_MODEM_CONFIG_1] = 0
    /\ \E f \in FreqSweep :
          Returns(setFrequency(Machine(0), f), "setFrequency", f)

SweepPower ==
    /\ Idle /\ calls = 0
    /\ \E pw \in PowerSweep, boost \in BOOLEAN :
          Returns(setPower(Machine(0), pw, boost), "setPower",
                  IF boost THEN pw + 256 ELSE pw)

SweepBandwidth ==
    /\ Idle /\ calls = 0
    /\ \E bw \in ByteSweep :
          Returns(setBandwidth(Machine(0), bw), "setBandwidth", bw)

SweepCodingRate ==
    /\ Idle /\ calls = 0
    /\ \E cr \in ByteSweep :
          Returns(setCodingRate(Machine(0), cr), "setCodingRate", cr)

\* begin(434.0, 125.0, 9, d, 0x12, 10, 8) for every documented coding-rate
\* denominator d
SweepBeginLoRa ==
    /\ Idle /\ calls = 0
    /\ \E d \in CodingRateDenominators :
          BringsUp(begin_LoRa(Machine(0), Flt(434, 0), Flt(125, 0), 9, d,
                              18, 10, 8),
                   "begin_LoRa", d)

\* the multi-byte setSyncWord with every length, legal or not
SweepSyncWord ==
    /\ Idle /\ calls = 0
    /\ \E len \in SyncLenSweep :
          Returns(setSyncWord_bytes(Machine(0), FullSyncWord, len),
                  "setSyncWord_bytes", len)

NextArgs ==
    \/ PresetModemConfig
    \/ SweepSyncWord
    \/ SweepBeginLoRa
    \/ SweepFrequency
    \/ SweepPower
    \/ SweepBandwidth
    \/ SweepCodingRate
    \/ CallerContinues

\* One setter call with any argument, on a constructed radio whose shared
\* modem-config register holds the power-on value or a prepared one.
SpecArgs == InitBound /\ [][NextArgs]_vars

\* ------------------------------------------------------ modem-config-2
\* calls the sketch makes after preparing the register
MaxPairCalls == 2
\* every spreading factor the setter accepts, and the values next to them
SfSweep == (SX1276_SF_6 - 1) .. (SX1276_SF_12 + 1)

\* the sketch prepares modem-config register 2, before the setter calls
PresetModemConfig2 ==
    /\ Idle /\ calls = 0
    /\ regs[SX1276_REG_MODEM_CONFIG_2] = 0
    /\ regs[SX1276_REG_DETECTION_OPTIMIZE] = 0
    /\ \E v \in ByteSweep \ {0} :
          Commit(writeRegister(Machine(0), SX1276_REG_MODEM_CONFIG_2, v),
                 "writeRegister", v)
    /\ UNCHANGED <<now, start, calls>>

SweepSpreadingFactor ==
    /\ Idle /\ calls < MaxPairCalls
    /\ \E sf \in SfSweep :
          Returns(setSpreadingFactor(Machine(0), sf),
                  "setSpreadingFactor", sf)

SweepCRC ==
    /\ Idle /\ calls < MaxPairCalls
    /\ \E enable \in BOOLEAN :
          Returns(setCRC(Machine(0), enable), "setCRC",
                  IF enable THEN 1 ELSE 0)

NextSf ==
    \/ PresetModemConfig2
    \/ SweepSpreadingFactor
    \/ SweepCRC
    \/ CallerContinues

\* The two setters of modem-config register 2, called one after the other
\* in any order, on any prior value of the register.
SpecSf == InitBound /\ [][NextSf]_vars

\* ------------------------------------------------------ frequency error
\* the bandwidths a sketch configures: the ten encodings, and one accepted
\* value that is none of them
FeiBandwidths ==
    {SX1276_BW_7_8_KHZ, SX1276_BW_10_4_KHZ, SX1276_BW_15_6_KHZ,
     SX1276_BW_20_8_KHZ, SX1276_BW_31_25_KHZ, SX1276_BW_41_7_KHZ,
     SX1276_BW_62_5_KHZ, SX1276_BW_125_KHZ, SX1276_BW_250_KHZ,
     SX1276_BW_500_KHZ, SX1276_BW_7_8_KHZ + 1}
\* values of the 20-bit field the chip reports: small offsets of both
\* signs, the extremes, and for every bandwidth the largest offsets whose
\* product with it fits in 32 bits and the ones next to them
FreqErrorSamples ==
    (0 .. 16) \cup (1048560 .. 1048575) \cup (524287 .. 524289)
    \cup UNION {LET t == 2147483647 \div BwHz(bw)
                IN IF t >= 524288 THEN {}
                   ELSE {t - 1, t, t + 1,
                         1048576 - t - 1, 1048576 - t, 1048576 - t + 1} :
                bw \in FeiBandwidths}
\* the upper nibble of the most significant byte is not part of the field
ReservedNibbles == {0, 240}

FreqErrorRegs(rg) ==
    <<rg[SX1276_REG_FREQ_ERROR_MSB], rg[SX1276_REG_FREQ_ERROR_MID],
      rg[SX1276_REG_FREQ_ERROR_LSB]>>

\* the sketch configures a bandwidth, before any packet is measured
ConfigureBandwidth ==
    /\ Idle
    /\ FreqErrorRegs(regs) = <<0, 0, 0>>
    /\ \E bw \in FeiBandwidths :
          Commit(setBandwidth(Machine(0), bw), "setBandwidth", bw)
    /\ UNCHANGED <<now, start, calls>>

\* the chip latches the frequency error of a received packet
ChipFreqError ==
    /\ Idle
    /\ FreqErrorRegs(regs) = <<0, 0, 0>>
    /\ \E raw \in FreqErrorSamples, top \in ReservedNibbles :
          regs' = [regs EXCEPT
                     ![SX1276_REG_FREQ_ERROR_MSB] = top + raw \div 65536,
                     ![SX1276_REG_FREQ_ERROR_MID] = (raw \div 256) % 256,
                     ![SX1276_REG_FREQ_ERROR_LSB] = raw % 256]
    /\ UNCHANGED <<radio, fifo, cs, xfer, bus, buf, pc, ret, op, arg,
                   now, start, calls>>

GetFrequencyError ==
    /\ Idle
    /\ \E wraps \in BOOLEAN :
          Commit(getFrequencyError(Machine(0), wraps), "getFrequencyError",
                 RawError(regs[SX1276_REG_FREQ_ERROR_MSB],
                          regs[SX1276_REG_FREQ_ERROR_MID],
                          regs[SX1276_REG_FREQ_ERROR_LSB]))
    /\ UNCHANGED <<now, start, calls>>

NextFei ==
    \/ ConfigureBandwidth
    \/ ChipFreqError
    \/ GetFrequencyError
    \/ CallerContinues

\* A configured bandwidth, a measured packet, and reads of its frequency
\* error.
SpecFei == InitBound /\ [][NextFei]_vars

\* ------------------------------------------------------ no chip
\* Bring-up against a part whose identity register does not read 0x12, with
\* register access and mode requests before and between the attempts.
NextAbsent ==
    \/ Begin
    \/ BeginLoRa
    \/ BeginFSK
    \/ WriteRegisterOp
    \/ Standby
    \/ Sleep
    \/ CallerContinues

SpecAbsent == InitAbsent /\ [][NextAbsent]_vars

\* ------------------------------------------------------ FSK/OOK in use
\* An FSK/OOK bring-up, then setters, transmit and receive, with switches
\* between the families.
\* calls the sketch makes after a bring-up
MaxKeepCalls == 2

KeepTransmit == calls < MaxKeepCalls /\ Transmit
KeepReceive == calls < MaxKeepCalls /\ Receive

NextKeep ==
    \/ BeginFSK
    \/ SetModulation
    \/ SetFrequency
    \/ SetPower
    \/ SetBandwidth
    \/ SetSpreadingFactor
    \/ SetCodingRate
    \/ SetPreambleLength
    \/ SetSyncWord
    \/ SetCRC
    \/ SetBitrate
    \/ SetFrequencyDeviation
    \/ SetRxBandwidth
    \/ SetSyncWordBytes
    \/ SetPacketConfig
    \/ KeepTransmit
    \/ KeepReceive
    \/ TransmitPoll
    \/ ReceivePoll
    \/ ChipTxDone
    \/ ChipRxDone
    \/ CallerContinues

SpecKeep == InitBound /\ [][NextKeep]_vars

\* ------------------------------------------------------ FSK encodings
\* every legal bit rate and frequency deviation, and the values next to the
\* ends of the ranges
BitrateSweep == 1199 .. 300001
FreqDevSweep == (0 .. 1) \cup (599 .. 200001)

SweepBitrate ==
    /\ Idle /\ calls = 0
    /\ \E br \in BitrateSweep :
          Returns(setBitrate(Machine(0), br), "setBitrate", br)

SweepFrequencyDeviation ==
    /\ Idle /\ calls = 0
    /\ \E fd \in FreqDevSweep :
          Returns(setFrequencyDeviation(Machine(0), fd),
                  "setFrequencyDeviation", fd)

NextFskArgs ==
    \/ SweepBitrate
    \/ SweepFrequencyDeviation

\* One call of an FSK/OOK rate setter, with any argument, on a constructed
\* radio.
SpecFskArgs == InitBound /\ [][NextFskArgs]_vars

\* ------------------------------------------------------ reading the bus log
\* positions of the log where a transaction with the write bit opens
WriteStarts(log) ==
    {i \in 1 .. Len(log) - 1 :
        /\ log[i] = <<"cs", LOW>>
        /\ log[i + 1][1] = "xfer"
        /\ log[i + 1][2] >= 128}

\* ... those that write the operating-mode register, and the value written
OpModeWrites(log) ==
    {i \in WriteStarts(log) :
        /\ log[i + 1][2] = 128 + SX1276_REG_OP_MODE
        /\ i + 2 <= Len(log)}

WrittenAt(log, i) == log[i + 2][2]

\* the value of the last operating-mode write of the log, -1 if there is none
LastOpModeWrite(log) ==
    LET s == OpModeWrites(log)
    IN IF s = {} THEN -1
       ELSE WrittenAt(log, CHOOSE i \in s : \A j \in s : j <= i)

\* positions of the log where a read of the FIFO address opens
FifoReads(log) ==
    {i \in 1 .. Len(log) - 1 :
        log[i] = <<"cs", LOW>> /\ log[i + 1] = <<"xfer", SX1276_REG_FIFO>>}

\* the stored configuration: every private field but the pins and the
\* cached RSSI
StoredConfig(r) ==
    [f \in DOMAIN r \ {"csPin", "rstPin", "dio0Pin", "lastRSSI"} |-> r[f]]

\* a step that is one iteration of a polling loop: only these advance the
\* clock while a call is polling
PollStep == Polling /\ now' # now

\* ------------------------------------------------------ C1
\* C1, as the specification states it: whenever transmit or receive returns
\* a failure code (packet-too-long, tx-timeout, rx-timeout, crc-mismatch or
\* wrong-modem), the mode field of the operating-mode register is Standby.
C1_AnyFailureLeavesStandby ==
    (pc = "done" /\ op \in {"transmit", "receive"}
       /\ ret \in {SX1276_ERR_PACKET_TOO_LONG, SX1276_ERR_TX_TIMEOUT,
                   SX1276_ERR_RX_TIMEOUT, SX1276_ERR_CRC_MISMATCH,
                   SX1276_ERR_WRONG_MODEM})
    => ModeField(regs[SX1276_REG_OP_MODE]) = SX1276_MODE_STDBY

\* C1, amended: when transmit or receive returns tx-timeout, rx-timeout or
\* crc-mismatch, the mode field of the operating-mode register is Standby;
\* a packet-too-long return has made no bus access, so it leaves the mode as
\* it was; wrong-modem is not returned by either call.
C1_FailureLeavesStandby ==
    (pc = "done" /\ op \in {"transmit", "receive"})
    => /\ ret \in {SX1276_ERR_TX_TIMEOUT, SX1276_ERR_RX_TIMEOUT,
                   SX1276_ERR_CRC_MISMATCH}
          => ModeField(regs[SX1276_REG_OP_MODE]) = SX1276_MODE_STDBY
       /\ ret = SX1276_ERR_PACKET_TOO_LONG => bus = <<>>
       /\ ret # SX1276_ERR_WRONG_MODEM

\* a transmit that timed out in FSK/OOK and left the chip in standby
C1_Witness ==
    /\ pc = "done" /\ op = "transmit" /\ ret = SX1276_ERR_TX_TIMEOUT
    /\ radio.modulation = SX1276_MODULATION_FSK
    /\ regs[SX1276_REG_OP_MODE] = SX1276_MODE_STDBY

\* ------------------------------------------------------ C2
\* the completion signal the polling loop reads is not asserted
SignalLow ==
    CASE pc \in {"tx_lora", "rx_lora"} -> ChipDIO0(regs) = LOW
      [] pc = "tx_fsk" ->
            And(regs[SX1276_REG_IRQ_FLAGS_2], SX1276_IRQ2_PACKET_SENT) = 0
      [] pc = "rx_fsk" ->
            And(regs[SX1276_REG_IRQ_FLAGS_2], SX1276_IRQ2_PAYLOAD_READY) = 0
      [] OTHER -> FALSE

\* C2: a polling loop returns tx-timeout or rx-timeout only when the elapsed
\* time exceeds its ceiling (5000 ms in transmit, 10000 ms in receive), and
\* then a Standby request was the last thing written to the operating-mode
\* register; an iteration that finds the signal low past the ceiling does
\* return the timeout; and no return of transmit or receive leaves the mode
\* field at TX or RX-continuous.
C2_TimeoutRestoresStandby ==
    [][/\ (PollStep /\ pc' = "done"
             /\ ret' \in {SX1276_ERR_TX_TIMEOUT, SX1276_ERR_RX_TIMEOUT})
          => /\ ret' = IF pc \in {"tx_lora", "tx_fsk"}
                       THEN SX1276_ERR_TX_TIMEOUT ELSE SX1276_ERR_RX_TIMEOUT
             /\ U32Gt(U32Sub(now', start),
                      IF pc \in {"tx_lora", "tx_fsk"} THEN 5000 ELSE 10000)
             /\ OpModeWrites(bus') \ OpModeWrites(bus) # {}
             /\ ModeField(LastOpModeWrite(bus')) = SX1276_MODE_STDBY
             /\ ModeField(regs'[SX1276_REG_OP_MODE]) = SX1276_MODE_STDBY
       /\ (PollStep /\ SignalLow
             /\ U32Gt(U32Sub(now', start),
                      IF pc \in {"tx_lora", "tx_fsk"} THEN 5000 ELSE 10000))
          => /\ pc' = "done"
             /\ ret' \in {SX1276_ERR_TX_TIMEOUT, SX1276_ERR_RX_TIMEOUT}
       /\ (pc' = "done" /\ op' \in {"transmit", "receive"})
          => ModeField(regs'[SX1276_REG_OP_MODE])
                \notin {SX1276_MODE_TX, SX1276_MODE_RX_CONTINUOUS}]_vars

\* an FSK/OOK receive that timed out, across the wrap of the clock
C2_Witness ==
    /\ pc = "done" /\ op = "receive" /\ ret = SX1276_ERR_RX_TIMEOUT
    /\ radio.modulation # SX1276_MODULATION_LORA
    /\ now.hi < start.hi
    /\ ModeField(regs[SX1276_REG_OP_MODE]) = SX1276_MODE_STDBY

\* ------------------------------------------------------ C3
\* C3: transmit with len greater than 255 returns packet-too-long without
\* any bus operation and without changing the stored configuration (nor,
\* then, the chip), whichever family is selected.
C3_TooLongTouchesNothing ==
    [][(pc = "idle" /\ op' = "transmit" /\ arg' > 255)
       => /\ pc' = "done"
          /\ ret' = SX1276_ERR_PACKET_TOO_LONG
          /\ bus' = <<>>
          /\ radio' = radio
          /\ regs' = regs /\ cs' = cs /\ fifo' = fifo]_vars

\* a rejected transmit of 256 bytes with FSK selected and the chip asleep
C3_Witness ==
    /\ pc = "done" /\ op = "transmit" /\ arg = 256
    /\ ret = SX1276_ERR_PACKET_TOO_LONG
    /\ radio.modulation = SX1276_MODULATION_FSK
    /\ ModeField(regs[SX1276_REG_OP_MODE]) = SX1276_MODE_SLEEP

\* ------------------------------------------------------ C4
\* C4: during standby(), transmit and receive every value written to the
\* operating-mode register has the family bit (bit 7) the register had
\* before, and the register's family bit does not change.
C4_FamilyBitPreserved ==
    [][(pc' # "idle" /\ op' \in {"standby", "transmit", "receive"})
       => /\ \A i \in OpModeWrites(bus') :
                FamilyBit(WrittenAt(bus', i))
                   = FamilyBit(regs[SX1276_REG_OP_MODE])
          /\ FamilyBit(regs'[SX1276_REG_OP_MODE])
                = FamilyBit(regs[SX1276_REG_OP_MODE])]_vars

\* a packet received in FSK: the call wrote the operating mode three times
\* (standby, RX-continuous, standby) and the chip is still in the FSK family
C4_Witness ==
    /\ pc = "done" /\ op = "receive" /\ ret > 0
    /\ radio.modulation = SX1276_MODULATION_FSK
    /\ Cardinality(OpModeWrites(bus)) = 3
    /\ ~ChipIsLoRa(regs)

\* ------------------------------------------------------ C5
\* C5: after sleep() returns, the family bit of the operating-mode register
\* is that of the selected modulation (set for LoRa, clear for FSK and OOK)
\* and the mode field is Sleep, whatever the register held before.
C5_SleepAssertsFamily ==
    (pc = "done" /\ op = "sleep")
    => /\ ModeField(regs[SX1276_REG_OP_MODE]) = SX1276_MODE_SLEEP
       /\ FamilyBit(regs[SX1276_REG_OP_MODE])
             = IF radio.modulation = SX1276_MODULATION_LORA
               THEN SX1276_LORA_MODE ELSE 0

\* ------------------------------------------------------ C6
\* the invalid-parameter codes
InvalidParameterCodes ==
    {SX1276_ERR_INVALID_FREQUENCY, SX1276_ERR_INVALID_BANDWIDTH,
     SX1276_ERR_INVALID_SPREADING_FACTOR, SX1276_ERR_INVALID_CODING_RATE,
     SX1276_ERR_INVALID_BITRATE, SX1276_ERR_INVALID_FREQUENCY_DEVIATION,
     SX1276_ERR_INVALID_SYNC_WORD}

\* C6: when a bring-up call (begin in either form, beginFSK) or
\* setModulation returns an invalid-parameter code, the call has written no
\* register and the stored configuration is what it was before the call.
C6_InvalidBringUpTouchesNothing ==
    [][(pc = "idle"
          /\ op' \in {"begin", "begin_LoRa", "beginFSK", "setModulation"}
          /\ ret' \in InvalidParameterCodes)
       => /\ WriteStarts(bus') = {}
          /\ StoredConfig(radio') = StoredConfig(radio)]_vars

\* ------------------------------------------------------ C7
\* the legal ranges the specification gives, by setter
OutOfRange(name, a) ==
    CASE name = "setFrequency" -> a < 137000000 \/ a > 1020000000
      [] name = "setBandwidth" -> a > 144
      [] name = "setSpreadingFactor" -> a < 6 \/ a > 12
      [] name = "setCodingRate" -> a < 2 \/ a > 8
      [] name = "setBitrate" -> a < 1200 \/ a > 300000
      [] name = "setFrequencyDeviation" -> (a >= 1 /\ a <= 599) \/ a > 200000
      [] name = "setSyncWord_bytes" -> a = 0 \/ a > 8
      [] OTHER -> FALSE

\* the invalid-X code of each
InvalidCode(name) ==
    CASE name = "setFrequency" -> SX1276_ERR_INVALID_FREQUENCY
      [] name = "setBandwidth" -> SX1276_ERR_INVALID_BANDWIDTH
      [] name = "setSpreadingFactor" -> SX1276_ERR_INVALID_SPREADING_FACTOR
      [] name = "setCodingRate" -> SX1276_ERR_INVALID_CODING_RATE
      [] name = "setBitrate" -> SX1276_ERR_INVALID_BITRATE
      [] name = "setFrequencyDeviation" ->
            SX1276_ERR_INVALID_FREQUENCY_DEVIATION
      [] name = "setSyncWord_bytes" -> SX1276_ERR_INVALID_SYNC_WORD
      [] OTHER -> SX1276_ERR_NONE

LoRaSetters ==
    {"setBandwidth", "setSpreadingFactor", "setCodingRate", "setSyncWord",
     "setCRC"}

FSKSetters ==
    {"setBitrate", "setFrequencyDeviation", "setRxBandwidth",
     "setSyncWord_bytes", "setPacketConfig"}

\* C8: a setter of one family, called (here with a legal argument) while
\* the other family is selected, returns wrong-modem and writes no register.
C8_OtherFamilySetterRefused ==
    [][(/\ pc = "idle"
        /\ ~OutOfRange(op', arg')
        /\ \/ op' \in LoRaSetters /\ radio.modulation # SX1276_MODULATION_LORA
           \/ op' \in FSKSetters /\ radio.modulation = SX1276_MODULATION_LORA)
       => /\ ret' = SX1276_ERR_WRONG_MODEM
          /\ WriteStarts(bus') = {}]_vars

\* ------------------------------------------------------ C9
\* C9: while a pin is unbound, no call performs a bus operation, and a call
\* that returns a status reports a failure.
C9_UnboundPinsNoBus ==
    PinsUnbound(Machine(0))
    => /\ bus = <<>>
       /\ (pc = "done" /\ op \notin {"readRegister", "writeRegister"})
          => ret < 0

\* ------------------------------------------------------ C10
\* reception is complete and the chip reports a CRC failure
CrcFailureReported ==
    \/ /\ pc = "rx_lora"
       /\ ChipDIO0(regs) = HIGH
       /\ And(regs[SX1276_REG_IRQ_FLAGS], SX1276_IRQ_PAYLOAD_CRC_ERROR) # 0
    \/ /\ pc = "rx_fsk"
       /\ And(regs[SX1276_REG_IRQ_FLAGS_2], SX1276_IRQ2_PAYLOAD_READY) # 0
       /\ radio.crcOnFSK
       /\ And(regs[SX1276_REG_IRQ_FLAGS_2], SX1276_IRQ2_CRC_OK) = 0

\* C10: the iteration of receive that finds reception complete with a CRC
\* failure returns crc-mismatch; the call has read nothing from the FIFO,
\* has written nothing into the caller's buffer, and its last
\* operating-mode write is Standby.
C10_CrcMismatchCopiesNothing ==
    [][(PollStep /\ CrcFailureReported)
       => /\ pc' = "done"
          /\ ret' = SX1276_ERR_CRC_MISMATCH
          /\ FifoReads(bus') = {}
          /\ fifo' = fifo
          /\ buf' = EmptyBuf
          /\ ModeField(LastOpModeWrite(bus')) = SX1276_MODE_STDBY]_vars

\* a LoRa receive with room in the buffer, ended by a CRC failure with the
\* packet still in the FIFO
C10_Witness ==
    /\ pc = "done" /\ op = "receive" /\ arg > 0
    /\ ret = SX1276_ERR_CRC_MISMATCH
    /\ radio.modulation = SX1276_MODULATION_LORA
    /\ fifo # <<>>
    /\ buf = EmptyBuf

\* ------------------------------------------------------ C11
Min(a, b) == IF a <= b THEN a ELSE b

\* the packet length the chip reports to a receive that is polling: the
\* received-byte count (LoRa), the payload-length register (FSK/OOK fixed
\* length) or the first byte in the FIFO (FSK/OOK variable length)
ReportedLength ==
    IF pc = "rx_lora" THEN regs[SX1276_REG_RX_NB_BYTES]
    ELSE IF radio.fixedLength THEN regs[SX1276_REG_PAYLOAD_LENGTH_FSK]
    ELSE IF fifo = <<>> THEN 0 ELSE Head(fifo)

\* the payload bytes waiting in the FIFO, in the order the chip hands them
\* out
PayloadInFifo ==
    IF pc = "rx_fsk" /\ ~radio.fixedLength /\ fifo # <<>> THEN Tail(fifo)
    ELSE fifo

\* C11: a receive that returns success with the chip reporting length L
\* returns min(L, maxLen), has written exactly the first min(L, maxLen)
\* payload bytes of the FIFO, in order, to buffer positions
\* 0 .. min(L, maxLen) - 1, and has written no other position.
C11_ReceiveCopiesClampedLength ==
    [][(PollStep /\ pc \in {"rx_lora", "rx_fsk"} /\ pc' = "done"
          /\ ret' >= 0)
       => LET n == Min(ReportedLength, arg)
          IN /\ ret' = n
             /\ \A i \in 1 .. BufSize :
                   buf'[i] = IF i <= n THEN PayloadInFifo[i] ELSE -1]_vars

\* a variable-length FSK receive of a packet longer than maxLen: the buffer
\* is filled up to maxLen, the rest of the packet is still in the FIFO
C11_Witness ==
    /\ pc = "done" /\ op = "receive" /\ arg = MaxLen /\ ret = MaxLen
    /\ radio.modulation = SX1276_MODULATION_FSK /\ ~radio.fixedLength
    /\ buf[MaxLen] = MaxLen /\ buf[MaxLen + 1] = -1
    /\ fifo # <<>>

\* ------------------------------------------------------ C12
\* positions of the log where a write to the FIFO address opens
FifoWrites(log) ==
    {i \in WriteStarts(log) : log[i + 1][2] = 128 + SX1276_REG_FIFO}

\* the transaction that pushes n payload bytes, with or without the length
\* byte in front
FifoPush(n, withLength) ==
    <<<<"cs", LOW>>, <<"xfer", 128 + SX1276_REG_FIFO>>>>
    \o (IF withLength THEN <<<<"xfer", n>>>> ELSE <<>>)
    \o [i \in 1 .. n |-> <<"xfer", Payload(n)[i]>>]
    \o <<<<"cs", HIGH>>>>

\* C12: a transmit of n <= 255 bytes makes exactly one write transaction to
\* the FIFO address: chip-select low, 0x80, the length byte n in FSK/OOK
\* variable-length mode only, the n payload bytes in order, chip-select
\* high.
C12_OneFifoTransaction ==
    (op = "transmit" /\ pc # "idle" /\ arg <= 255)
    => /\ Cardinality(FifoWrites(bus)) = 1
       /\ \A i \in FifoWrites(bus) :
             LET push == FifoPush(arg,
                            radio.modulation # SX1276_MODULATION_LORA
                            /\ ~radio.fixedLength)
             IN /\ i + Len(push) - 1 <= Len(bus)
                /\ SubSeq(bus, i, i + Len(push) - 1) = push

\* a variable-length FSK transmit of MaxLen bytes that completed
C12_Witness ==
    /\ pc = "done" /\ op = "transmit" /\ arg = MaxLen
    /\ ret = SX1276_ERR_NONE
    /\ radio.modulation = SX1276_MODULATION_FSK /\ ~radio.fixedLength
    /\ FifoWrites(bus) # {}

\* ------------------------------------------------------ C13
\* positions of the log where a read of the instantaneous RSSI register opens
RssiReads(log) ==
    {i \in 1 .. Len(log) - 1 :
        /\ log[i] = <<"cs", LOW>>
        /\ log[i + 1] = <<"xfer", SX1276_REG_RSSI_VALUE_FSK>>}

\* the operating-mode writes of the log before position i
OpModeWritesBefore(log, i) == {k \in OpModeWrites(log) : k < i}

\* C13: the iteration that completes an FSK/OOK receive successfully reads
\* the RSSI register once, with RX-continuous as the last operating mode
\* written before the read, and caches -(raw div 2) of the value the
\* register held; an FSK/OOK receive that ends in rx-timeout or
\* crc-mismatch leaves the cached value as it was; getRSSI_FSK returns the
\* cached value.
C13_RssiCachedWhileReceiving ==
    [][/\ (PollStep /\ pc = "rx_fsk" /\ pc' = "done" /\ ret' >= 0)
          => /\ Cardinality(RssiReads(bus')) = 1
             /\ \A i \in RssiReads(bus') :
                   LET w == OpModeWritesBefore(bus', i)
                   IN /\ w # {}
                      /\ ModeField(WrittenAt(bus',
                            CHOOSE k \in w : \A j \in w : j <= k))
                           = SX1276_MODE_RX_CONTINUOUS
             /\ radio'.lastRSSI = -(regs[SX1276_REG_RSSI_VALUE_FSK] \div 2)
       /\ (PollStep /\ pc = "rx_fsk" /\ pc' = "done"
             /\ ret' \in {SX1276_ERR_RX_TIMEOUT, SX1276_ERR_CRC_MISMATCH})
          => radio'.lastRSSI = radio.lastRSSI
       /\ (pc = "idle" /\ op' = "getRSSI_FSK")
          => ret' = radio.lastRSSI]_vars

\* getRSSI_FSK returning -60 (raw reading 120) after a later receive ended
\* in a CRC failure whose raw reading would have been 91
C13_Witness ==
    /\ pc = "done" /\ op = "getRSSI_FSK" /\ ret = -60
    /\ regs[SX1276_REG_RSSI_VALUE_FSK] = 91
    /\ And(regs[SX1276_REG_IRQ_FLAGS_2], SX1276_IRQ2_CRC_OK) = 0
    /\ And(regs[SX1276_REG_IRQ_FLAGS_2], SX1276_IRQ2_PAYLOAD_READY) # 0

\* ------------------------------------------------------ C14
\* operating-mode writes of the log that start a transmission or a reception
StartsOfOperation(log) ==
    {i \in OpModeWrites(log) :
        ModeField(WrittenAt(log, i))
            \in {SX1276_MODE_TX, SX1276_MODE_RX_CONTINUOUS}}

\* C14: while the clock advances, a call of transmit or receive that is in
\* its polling loop returns; and no call starts its operation a second
\* time.
C14_CallsTerminate ==
    /\ Polling ~> pc = "done"
    /\ [](op \in {"transmit", "receive"}
          => Cardinality(StartsOfOperation(bus)) <= 1)

\* a receive that polled past its deadline with the chip silent, and
\* returned
C14_Witness ==
    /\ pc = "done" /\ op = "receive" /\ ret = SX1276_ERR_RX_TIMEOUT
    /\ Cardinality(StartsOfOperation(bus)) = 1
    /\ U32Gt(U32Sub(now, start), RX_TIMEOUT_MS)

\* ------------------------------------------------------ C15
\* the fields of the LoRa sub-configuration: bandwidth, coding rate,
\* spreading factor, CRC, preamble length, sync word, detection pair,
\* over-current limit
LoRaFields(rg) ==
    <<And(rg[SX1276_REG_MODEM_CONFIG_1], 240),
      And(rg[SX1276_REG_MODEM_CONFIG_1], 14),
      And(rg[SX1276_REG_MODEM_CONFIG_2], 240),
      And(rg[SX1276_REG_MODEM_CONFIG_2], 4),
      rg[SX1276_REG_PREAMBLE_MSB], rg[SX1276_REG_PREAMBLE_LSB],
      rg[SX1276_REG_SYNC_WORD],
      rg[SX1276_REG_DETECTION_OPTIMIZE], rg[SX1276_REG_DETECTION_THRESHOLD],
      rg[SX1276_REG_OCP]>>

\* ... and the values the stored parameters give them
LoRaDerived(r) ==
    <<r.bw, r.cr, r.sf * 16, IF r.crcEnabled THEN 4 ELSE 0,
      r.preambleLength \div 256, r.preambleLength % 256,
      r.syncWord,
      IF r.sf = SX1276_SF_6 THEN 5 ELSE 3,
      IF r.sf = SX1276_SF_6 THEN 12 ELSE 10,
      59>>

\* the registers of the FSK/OOK sub-configuration: bit rate, deviation,
\* RX and AFC bandwidth, preamble length, sync word, packet format,
\* over-current limit
FSKFields(rg) ==
    <<rg[SX1276_REG_BITRATE_MSB], rg[SX1276_REG_BITRATE_LSB],
      rg[SX1276_REG_FDEV_MSB], rg[SX1276_REG_FDEV_LSB],
      rg[SX1276_REG_RX_BW], rg[SX1276_REG_AFC_BW],
      rg[SX1276_REG_PREAMBLE_MSB_FSK], rg[SX1276_REG_PREAMBLE_LSB_FSK],
      rg[SX1276_REG_SYNC_CONFIG],
      [i \in 1 .. 8 |-> rg[SX1276_REG_SYNC_VALUE_1 + i - 1]],
      rg[SX1276_REG_PACKET_CONFIG_1], rg[SX1276_REG_PACKET_CONFIG_2],
      rg[SX1276_REG_OCP]>>

\* ... holding the values the stored parameters give them (the deviation
\* is programmed for FSK only)
FSKDerived(r, rg) ==
    /\ rg[SX1276_REG_BITRATE_MSB] = ((SX1276_FXOSC \div r.bitrate) \div 256) % 256
    /\ rg[SX1276_REG_BITRATE_LSB] = (SX1276_FXOSC \div r.bitrate) % 256
    /\ r.modulation = SX1276_MODULATION_FSK
       => /\ rg[SX1276_REG_FDEV_MSB] = (Frf(r.freqDev) \div 256) % 64
          /\ rg[SX1276_REG_FDEV_LSB] = Frf(r.freqDev) % 256
    /\ rg[SX1276_REG_RX_BW] = r.rxBw
    /\ rg[SX1276_REG_AFC_BW] = r.rxBw
    /\ rg[SX1276_REG_PREAMBLE_MSB_FSK] = r.preambleLengthFSK \div 256
    /\ rg[SX1276_REG_PREAMBLE_LSB_FSK] = r.preambleLengthFSK % 256
    /\ rg[SX1276_REG_SYNC_CONFIG] = 144 + (r.syncWordLen - 1)
    /\ \A i \in 1 .. r.syncWordLen :
          rg[SX1276_REG_SYNC_VALUE_1 + i - 1] = r.syncWordFSK[i]
    /\ rg[SX1276_REG_PACKET_CONFIG_1]
          = (IF r.fixedLength THEN 128 ELSE 0) + (IF r.crcOnFSK THEN 16 ELSE 0)
    /\ rg[SX1276_REG_OCP] = 47

SubConfigDerived(r, rg) ==
    IF r.modulation = SX1276_MODULATION_LORA
    THEN LoRaFields(rg) = LoRaDerived(r)
    ELSE FSKDerived(r, rg)

SubConfigFields(r, rg) ==
    IF r.modulation = SX1276_MODULATION_LORA THEN LoRaFields(rg)
    ELSE FSKFields(rg)

\* a switch to the other family and back
ThereAndBack(m) ==
    setModulation(
        setModulation(m, IF m.r.modulation = SX1276_MODULATION_LORA
                         THEN SX1276_MODULATION_FSK
                         ELSE SX1276_MODULATION_LORA),
        m.r.modulation)

\* the radio after no or one more call of a setter of the selected family
AfterLoRaSetter(m) ==
    {m, setBandwidth(m, SX1276_BW_500_KHZ),
     setSpreadingFactor(m, SX1276_SF_6), setCodingRate(m, SX1276_CR_4_8),
     setPreambleLength(m, 12), setSyncWord(m, 52), setCRC(m, FALSE)}

AfterFSKSetter(m) ==
    {m, setBitrate(m, 9600), setFrequencyDeviation(m, 10000),
     setRxBandwidth(m, SX1276_RX_BW_125_0_KHZ_FSK),
     setPreambleLength(m, 16),
     setSyncWord_bytes(m, <<1, 2, 3, 0, 0, 0, 0, 0>>, 3),
     setPacketConfig(m, TRUE, FALSE)}

\* the call that just returned configured the selected family
Configured ==
    /\ pc = "done" /\ ret = SX1276_ERR_NONE
    /\ op \in {"begin", "begin_LoRa", "beginFSK", "setModulation"}

\* the selected family's fields before and after a switch to the other
\* family and back, for a radio that was just configured and then had no or
\* one setter of its family called
RoundTripRestores ==
    Configured
    => \A a \in (IF radio.modulation = SX1276_MODULATION_LORA
                 THEN AfterLoRaSetter(Machine(0))
                 ELSE AfterFSKSetter(Machine(0))) :
          LET b == ThereAndBack(a)
          IN (a.ret = SX1276_ERR_NONE /\ b.ret = SX1276_ERR_NONE)
             => SubConfigFields(b.r, b.regs) = SubConfigFields(a.r, a.regs)

\* C15: after a successful setModulation the family bit of the
\* operating-mode register is that of the selected family and every
\* register of its sub-configuration holds the value derived from the
\* stored parameters; and after a successful configuration and successful
\* setter calls of the selected family, a switch to the other family and
\* back restores that family's registers to the values they had.
C15_SwitchResynthesizes ==
    /\ [][(pc = "idle" /\ op' = "setModulation" /\ ret' = SX1276_ERR_NONE)
          => /\ FamilyBit(regs'[SX1276_REG_OP_MODE])
                  = (IF radio'.modulation = SX1276_MODULATION_LORA
                     THEN SX1276_LORA_MODE ELSE 0)
             /\ SubConfigDerived(radio', regs')]_vars
    /\ []RoundTripRestores

\* ------------------------------------------------------ C16
\* the log of one single-register write
RegWrite(a, v) ==
    <<<<"cs", LOW>>, <<"xfer", 128 + a>>, <<"xfer", v>>, <<"cs", HIGH>>>>

\* the 24-bit value the three frequency registers hold
FrfRegs(rg) ==
    rg[SX1276_REG_FRF_MSB] * 65536 + rg[SX1276_REG_FRF_MID] * 256
    + rg[SX1276_REG_FRF_LSB]

\* floor and ceiling of k * 32000000 / 2^19 = k * 15625 / 256, for k < 2^24
StepsToHzFloor(k) == (k \div 256) * 15625 + ((k % 256) * 15625) \div 256
StepsToHzCeil(k) == (k \div 256) * 15625 + ((k % 256) * 15625 + 255) \div 256

\* setFrequency(f) with f in range succeeds and writes MSB, MID, LSB in that
\* order, as single-register writes, of frf = floor(f * 2^19 / 32000000),
\* that is of the frf with frf * 15625 / 256 <= f < (frf + 1) * 15625 / 256;
\* the frequency read back from the registers is at most maxError below f
FrequencyRoundTrip(maxError) ==
    (pc = "idle" /\ op' = "setFrequency"
       /\ arg' >= 137000000 /\ arg' <= 1020000000)
    => LET frf == FrfRegs(regs')
       IN /\ ret' = SX1276_ERR_NONE
          /\ bus' = RegWrite(SX1276_REG_FRF_MSB, regs'[SX1276_REG_FRF_MSB])
                    \o RegWrite(SX1276_REG_FRF_MID, regs'[SX1276_REG_FRF_MID])
                    \o RegWrite(SX1276_REG_FRF_LSB, regs'[SX1276_REG_FRF_LSB])
          /\ StepsToHzCeil(frf) <= arg'
          /\ arg' < StepsToHzCeil(frf + 1)
          /\ arg' - StepsToHzFloor(frf) >= 0
          /\ arg' - StepsToHzFloor(frf) <= maxError

\* C16, as the specification states it: the frequency reconstructed from
\* the registers is between 0 and 61 Hz below the frequency set.
C16_RoundTripWithin61 == [][FrequencyRoundTrip(61)]_vars

\* C16, amended: setFrequency(f) with f in [137000000, 1020000000] succeeds
\* and writes frf = floor(f * 2^19 / 32000000) as three single-register
\* writes in the order MSB, MID, LSB; f' = floor(frf * 32000000 / 2^19)
\* read back from the registers gives 0 <= f - f' <= 62.
C16_RoundTripWithin62 == [][FrequencyRoundTrip(62)]_vars

\* a frequency whose reconstruction is 62 Hz low
C16_Witness ==
    /\ pc = "done" /\ op = "setFrequency" /\ ret = SX1276_ERR_NONE
    /\ arg - StepsToHzFloor(FrfRegs(regs)) = 62

\* ------------------------------------------------------ C17
Clamp(x, lo, hi) == IF x < lo THEN lo ELSE IF x > hi THEN hi ELSE x

\* C17: setPower(p, boost) returns success and writes exactly two
\* registers, the amplifier configuration and then the DAC.  Boosted:
\* 0x80 | (q - 2) with q = clamp(p, 2, 17) for p <= 17 and
\* q = min(p, 20) - 3 for p > 17, DAC 0x87 for p > 17 and 0x84 otherwise.
\* Direct: 0x70 | (clamp(p, -1, 14) + 1), DAC 0x84.  The power field is in
\* 0 .. 15 and the selector bits are 0x80 or 0x70.
C17_PowerEncoding ==
    [][(pc = "idle" /\ op' = "setPower")
       => LET boost == arg' >= 128
              pw == IF boost THEN arg' - 256 ELSE arg'
              field == IF boost
                       THEN (IF pw <= 17 THEN Clamp(pw, 2, 17)
                             ELSE Clamp(pw, 18, 20) - 3) - 2
                       ELSE Clamp(pw, -1, 14) + 1
              dac == IF boost /\ pw > 17 THEN 135 ELSE 132
              cfg == (IF boost THEN 128 ELSE 112) + field
          IN /\ ret' = SX1276_ERR_NONE
             /\ field \in 0 .. 15
             /\ bus' = RegWrite(SX1276_REG_PA_CONFIG, cfg)
                       \o RegWrite(SX1276_REG_PA_DAC, dac)
             /\ regs'[SX1276_REG_PA_CONFIG] = cfg
             /\ regs'[SX1276_REG_PA_CONFIG] \div 16 = (IF boost THEN 8 ELSE 7)
             /\ regs'[SX1276_REG_PA_DAC] = dac]_vars

\* boosted requests below the floor and above the ceiling: -128 dBm is
\* sent as 2 dBm; 127 dBm is sent as 20 dBm with the high-power DAC setting
C17_Witness ==
    /\ pc = "done" /\ op = "setPower" /\ ret = SX1276_ERR_NONE
    /\ \/ /\ arg = 256 - 128
          /\ regs[SX1276_REG_PA_CONFIG] = 128
          /\ regs[SX1276_REG_PA_DAC] = 132
       \/ /\ arg = 256 + 127
          /\ regs[SX1276_REG_PA_CONFIG] = 143
          /\ regs[SX1276_REG_PA_DAC] = 135

\* ------------------------------------------------------ C18
\* C18: for every argument setBandwidth accepts (every value up to 0x90)
\* and every prior value r of the shared modem-config register, the
\* register's low nibble is r & 0x0F after the call and its high nibble is
\* the new bandwidth.
C18_LowNibblePreserved ==
    [][(pc = "idle" /\ op' = "setBandwidth" /\ arg' <= SX1276_BW_500_KHZ)
       => /\ ret' = SX1276_ERR_NONE
          /\ regs'[SX1276_REG_MODEM_CONFIG_1] % 16
             = regs[SX1276_REG_MODEM_CONFIG_1] % 16
          /\ regs'[SX1276_REG_MODEM_CONFIG_1] \div 16 = arg' \div 16]_vars

\* ------------------------------------------------------ C19
\* C19: setCodingRate accepts exactly 2, 4, 6 and 8 and rejects every other
\* value with invalid-coding-rate, leaving the register alone; an accepted
\* value replaces bits 3..1 of the shared modem-config register and leaves
\* the bandwidth nibble and bit 0 as they were.
C19_EvenCodingRatesOnly ==
    [][(pc = "idle" /\ op' = "setCodingRate")
       => LET before == regs[SX1276_REG_MODEM_CONFIG_1]
              after == regs'[SX1276_REG_MODEM_CONFIG_1]
          IN IF arg' \in {SX1276_CR_4_5, SX1276_CR_4_6,
                          SX1276_CR_4_7, SX1276_CR_4_8}
             THEN /\ ret' = SX1276_ERR_NONE
                  /\ after \div 16 = before \div 16
                  /\ after % 2 = before % 2
                  /\ (after \div 2) % 8 = (arg' \div 2) % 8
             ELSE /\ ret' = SX1276_ERR_INVALID_CODING_RATE
                  /\ regs' = regs]_vars

\* ------------------------------------------------------ C20
\* C20: the RadioLib-style LoRa begin with bound pins, a responding chip,
\* valid arguments and a coding-rate denominator d in 5 .. 8 succeeds and
\* programs the coding-rate field with the encoding of 4/d: 0x02, 0x04,
\* 0x06, 0x08 for d = 5, 6, 7, 8.
C20_BeginProgramsCodingRate ==
    [][(pc = "idle" /\ op' = "begin_LoRa" /\ arg' \in CodingRateDenominators)
       => /\ ret' = SX1276_ERR_NONE
          /\ And(regs'[SX1276_REG_MODEM_CONFIG_1], 14) = 2 * (arg' - 4)]_vars

\* ------------------------------------------------------ C21
DetectionPair(rg) ==
    <<rg[SX1276_REG_DETECTION_OPTIMIZE], rg[SX1276_REG_DETECTION_THRESHOLD]>>

\* C21: for every spreading factor in 6 .. 12 setSpreadingFactor programs
\* the detection-optimize and detection-threshold registers with
\* (0x05, 0x0C) exactly when the factor is 6 and with (0x03, 0x0A) for 7 ..
\* 12; a refused call and setCRC leave the pair alone, so the pair is that
\* of the most recently accepted factor.
C21_DetectionPairFollowsSf ==
    [][IF pc = "idle" /\ op' = "setSpreadingFactor"
          /\ arg' \in SX1276_SF_6 .. SX1276_SF_12
       THEN /\ ret' = SX1276_ERR_NONE
            /\ radio'.sf = arg'
            /\ DetectionPair(regs')
               = (IF arg' = SX1276_SF_6 THEN <<5, 12>> ELSE <<3, 10>>)
       ELSE /\ DetectionPair(regs') = DetectionPair(regs)
            /\ radio'.sf = radio.sf]_vars

\* factor 6 accepted after factor 12: the alternate pair replaces the
\* standard one
C21_Witness ==
    /\ pc = "done" /\ op = "setSpreadingFactor" /\ arg = SX1276_SF_6
    /\ calls = 2 /\ ret = SX1276_ERR_NONE
    /\ DetectionPair(regs) = <<5, 12>>
    /\ regs[SX1276_REG_MODEM_CONFIG_2] \div 16 = SX1276_SF_6

\* ------------------------------------------------------ C22
\* modem-config register 2 after setSpreadingFactor(sf) then setCRC(e)
SfThenCrc(sf, e) ==
    setCRC(setSpreadingFactor(Machine(0), sf), e).regs[SX1276_REG_MODEM_CONFIG_2]
\* ... and after setCRC(e) then setSpreadingFactor(sf)
CrcThenSf(sf, e) ==
    setSpreadingFactor(setCRC(Machine(0), e), sf).regs[SX1276_REG_MODEM_CONFIG_2]

\* C22: setCRC changes only bit 2 of modem-config register 2 and
\* setSpreadingFactor only its high nibble, so for every prior value of the
\* register the two calls give the same value in either order, with bits
\* 3, 1 and 0 as they were.
C22_SfAndCrcIndependent ==
    /\ [][(pc = "idle" /\ op' = "setCRC")
          => /\ ret' = SX1276_ERR_NONE
             /\ And(regs'[SX1276_REG_MODEM_CONFIG_2], 251)
                = And(regs[SX1276_REG_MODEM_CONFIG_2], 251)
             /\ And(regs'[SX1276_REG_MODEM_CONFIG_2], 4) = 4 * arg']_vars
    /\ [][(pc = "idle" /\ op' = "setSpreadingFactor"
           /\ ret' = SX1276_ERR_NONE)
          => /\ regs'[SX1276_REG_MODEM_CONFIG_2] % 16
                = regs[SX1276_REG_MODEM_CONFIG_2] % 16
             /\ regs'[SX1276_REG_MODEM_CONFIG_2] \div 16 = arg']_vars
    /\ [](Idle => \A sf \in SX1276_SF_6 .. SX1276_SF_12, e \in BOOLEAN :
            /\ SfThenCrc(sf, e) = CrcThenSf(sf, e)
            /\ SfThenCrc(sf, e)
               = sf * 16 + (IF e THEN 4 ELSE 0)
                 + And(regs[SX1276_REG_MODEM_CONFIG_2], 11))

\* the two calls have run, in one order or the other, on the prior value
\* 0xFF: factor 9 with the CRC bit
\* cleared leaves 0x9B
C22_Witness ==
    /\ pc = "done" /\ calls = 2 /\ ret = SX1276_ERR_NONE
    /\ regs[SX1276_REG_MODEM_CONFIG_2] = 155
    /\ radio.sf = 9 /\ ~radio.crcEnabled
    /\ op \in {"setCRC", "setSpreadingFactor"}

\* ------------------------------------------------------ C23
\* C23: after setRxBandwidth(v) returns, the RX-bandwidth register and the
\* AFC-bandwidth register both hold v, whether the call is the user's or
\* the one the FSK/OOK bring-up sequence makes with the stored bandwidth.
C23_RxBandwidthMirrored ==
    /\ [][(pc = "idle" /\ op' = "setRxBandwidth")
          => /\ ret' = SX1276_ERR_NONE
             /\ regs'[SX1276_REG_RX_BW] = arg'
             /\ regs'[SX1276_REG_AFC_BW] = arg']_vars
    /\ [][(/\ pc = "idle"
           /\ op' \in {"begin", "beginFSK", "setModulation"}
           /\ ret' = SX1276_ERR_NONE
           /\ radio'.modulation # SX1276_MODULATION_LORA)
          => /\ regs'[SX1276_REG_RX_BW] = radio'.rxBw
             /\ regs'[SX1276_REG_AFC_BW] = radio'.rxBw]_vars

\* ------------------------------------------------------ C24
\* C24: a frequency deviation of 0 is legal only for OOK.  With FSK
\* selected setFrequencyDeviation(0) is refused with
\* invalid-frequency-deviation and writes no register; with OOK selected it
\* is accepted.
C24_ZeroDeviationOnlyForOOK ==
    [][(pc = "idle" /\ op' = "setFrequencyDeviation" /\ arg' = 0)
       => /\ radio.modulation = SX1276_MODULATION_FSK
             => /\ ret' = SX1276_ERR_INVALID_FREQUENCY_DEVIATION
                /\ regs' = regs
                /\ bus' = <<>>
          /\ radio.modulation = SX1276_MODULATION_OOK
             => ret' = SX1276_ERR_NONE]_vars

\* ------------------------------------------------------ C25
\* the bus log of writing bytes i+1 .. n of the word to consecutive
\* sync-value registers
RECURSIVE SyncValueWrites(_, _, _)
SyncValueWrites(word, i, n) ==
    IF i >= n THEN <<>>
    ELSE RegWrite(SX1276_REG_SYNC_VALUE_1 + i, word[i + 1])
         \o SyncValueWrites(word, i + 1, n)

\* C25: for every sync word of length n in 1 .. 8 the multi-byte
\* setSyncWord stores the n bytes, writes the sync-config register with
\* 0x90 | (n - 1), and then writes byte i to the i-th consecutive
\* sync-value register for i = 0 .. n-1, in that order and nothing else.
C25_SyncWordWrites ==
    [][(pc = "idle" /\ op' = "setSyncWord_bytes" /\ arg' \in 1 .. 8)
       => /\ ret' = SX1276_ERR_NONE
          /\ radio'.syncWordLen = arg'
          /\ \A i \in 1 .. arg' : radio'.syncWordFSK[i] = FullSyncWord[i]
          /\ \A i \in (arg' + 1) .. 8 :
                radio'.syncWordFSK[i] = radio.syncWordFSK[i]
          /\ bus' = RegWrite(SX1276_REG_SYNC_CONFIG, 144 + (arg' - 1))
                    \o SyncValueWrites(FullSyncWord, 0, arg')
          /\ \A i \in arg' .. 7 :
                regs'[SX1276_REG_SYNC_VALUE_1 + i]
                = regs[SX1276_REG_SYNC_VALUE_1 + i]]_vars

\* the longest word: size field 7 and the eighth sync-value register written
C25_Witness ==
    /\ pc = "done" /\ op = "setSyncWord_bytes" /\ arg = 8
    /\ ret = SX1276_ERR_NONE
    /\ regs[SX1276_REG_SYNC_CONFIG] = 151
    /\ regs[SX1276_REG_SYNC_VALUE_1 + 7] = FullSyncWord[8]
    /\ Len(bus) = Len(RegWrite(0, 0)) * 9

\* ------------------------------------------------------ C26
\* C26: for every value of the 20-bit frequency-error field and every
\* configured bandwidth getFrequencyError returns trunc(s * bwHz / 2^19),
\* s the field sign-extended from bit 19 and bwHz the bandwidth in Hz, and
\* the 32-bit signed product of the code never overflows.
C26_FrequencyErrorExact ==
    [][(pc = "idle" /\ op' = "getFrequencyError")
       => LET field == (regs[SX1276_REG_FREQ_ERROR_MSB] % 16) * 65536
                       + regs[SX1276_REG_FREQ_ERROR_MID] * 256
                       + regs[SX1276_REG_FREQ_ERROR_LSB]
              s == IF field >= 524288 THEN field - 1048576 ELSE field
              bwHz == BwHz(radio.bw)
          IN /\ ProductFits(s, bwHz)
             /\ ret' = ExactQuotient(s, bwHz)]_vars

\* ------------------------------------------------------ C27
\* positions of the log where a transaction opens
Transactions(log) == {i \in 1 .. Len(log) : log[i] = <<"cs", LOW>>}

\* C27: when the identity register does not read 0x12, begin in all three
\* forms returns chip-not-found after the reset pulse and that one register
\* read, without running the configuration sequence: no register is
\* written, and the chip is left as the reset left it, operating mode
\* included.
C27_ChipNotFoundStopsBringUp ==
    [][(/\ pc = "idle"
        /\ op' \in {"begin", "begin_LoRa", "beginFSK"}
        /\ regs[SX1276_REG_VERSION] # 18)
       => /\ ret' = SX1276_ERR_CHIP_NOT_FOUND
          /\ WriteStarts(bus') = {}
          /\ Cardinality(Transactions(bus')) = 1
          /\ \E i \in Transactions(bus') :
                bus'[i + 1] = <<"xfer", SX1276_REG_VERSION>>
          /\ regs' = PowerOnRegs(regs)]_vars

\* a refused beginFSK on a part that identifies as 0x22: one transaction,
\* and the mode is the one the reset pulse left
C27_Witness ==
    /\ pc = "done" /\ op = "beginFSK" /\ ret = SX1276_ERR_CHIP_NOT_FOUND
    /\ regs[SX1276_REG_VERSION] = 34
    /\ regs[SX1276_REG_OP_MODE] = 9
    /\ Cardinality(Transactions(bus)) = 1

\* ------------------------------------------------------ C28
\* the mode fields written at the positions w of the log, in log order
RECURSIVE ModesInOrder(_, _)
ModesInOrder(log, w) ==
    IF w = {} THEN <<>>
    ELSE LET i == CHOOSE k \in w : \A j \in w : k <= j
         IN <<ModeField(WrittenAt(log, i))>> \o ModesInOrder(log, w \ {i})

ActiveMode(name) ==
    IF name = "transmit" THEN SX1276_MODE_TX ELSE SX1276_MODE_RX_CONTINUOUS

\* write transactions to the registers a call prepares before it starts
\* the operation: interrupt mapping and payload length
SetUpWrites(log) ==
    {i \in WriteStarts(log) :
        log[i + 1][2] \in {128 + SX1276_REG_DIO_MAPPING_1,
                           128 + SX1276_REG_PAYLOAD_LENGTH,
                           128 + SX1276_REG_PAYLOAD_LENGTH_FSK}}

\* C28: in every transmit with len <= 255 and every receive, whatever the
\* outcome, the mode fields written to the operating-mode register are
\* Standby, then the active mode, then Standby.  No register is written and
\* the FIFO is not accessed before the first Standby write; the set-up
\* writes and the FIFO push come before the active-mode write, and nothing
\* is written between the active-mode write and the end of the wait.
C28_StandbyActiveStandby ==
    (op \in {"transmit", "receive"} /\ pc # "idle"
     /\ (op = "transmit" => arg <= 255))
    => LET w == OpModeWrites(bus)
           seq == ModesInOrder(bus, w)
           first == CHOOSE k \in w : \A j \in w : k <= j
           active == StartsOfOperation(bus)
       IN /\ w # {}
          /\ Polling => seq = <<SX1276_MODE_STDBY, ActiveMode(op)>>
          /\ pc = "done" => seq = <<SX1276_MODE_STDBY, ActiveMode(op),
                                    SX1276_MODE_STDBY>>
          /\ \A i \in WriteStarts(bus) \cup FifoReads(bus) : i >= first
          /\ \A a \in active :
                /\ \A i \in SetUpWrites(bus) \cup FifoWrites(bus) : i < a
                /\ \E i \in WriteStarts(bus) \ w : first < i /\ i < a
                /\ Polling => \A i \in WriteStarts(bus) : i <= a

\* a receive that ended in a CRC mismatch or a timeout, or a transmit that
\* timed out, with its three mode writes in the log
C28_Witness ==
    /\ pc = "done"
    /\ Cardinality(OpModeWrites(bus)) = 3
    /\ \/ op = "receive" /\ ret = SX1276_ERR_CRC_MISMATCH
       \/ op = "receive" /\ ret = SX1276_ERR_RX_TIMEOUT
       \/ op = "transmit" /\ ret = SX1276_ERR_TX_TIMEOUT

\* ------------------------------------------------------ C29
\* the OOK sub-mode bit of the operating-mode register
OokBit(rg) == And(rg[SX1276_REG_OP_MODE], 32)

\* C29: the FSK/OOK bring-up sequence completes with the OOK sub-mode bit
\* (0x20) of the operating-mode register set when OOK is selected and clear
\* when FSK is selected, and a later standby() leaves the bit as it is.
C29_OokBitFollowsModulation ==
    /\ [][(/\ pc = "idle"
           /\ op' \in {"begin", "beginFSK", "setModulation"}
           /\ ret' = SX1276_ERR_NONE
           /\ radio'.modulation # SX1276_MODULATION_LORA)
          => OokBit(regs') = (IF radio'.modulation = SX1276_MODULATION_OOK
                              THEN 32 ELSE 0)]_vars
    /\ [][(pc = "idle" /\ op' = "standby"
           /\ radio.modulation # SX1276_MODULATION_LORA)
          => OokBit(regs') = OokBit(regs)]_vars

\* ------------------------------------------------------ C30
\* the three internal RX timeouts disabled and the 120 mA over-current
\* setting
TimeoutsOff(rg) ==
    /\ rg[SX1276_REG_RX_TIMEOUT_1] = 0
    /\ rg[SX1276_REG_RX_TIMEOUT_2] = 0
    /\ rg[SX1276_REG_RX_TIMEOUT_3] = 0
    /\ rg[SX1276_REG_OCP] = 47

IsFskOok(r) == r.modulation # SX1276_MODULATION_LORA

\* C30: after a successful FSK/OOK bring-up (begin, beginFSK, setModulation
\* to FSK or OOK) the three RX-timeout registers are 0 and the over-current
\* register holds 0x2F, and every transmit, receive and setter call that
\* starts and ends with FSK/OOK selected keeps them so.
C30_TimeoutsStayOff ==
    /\ [][(/\ pc = "idle"
           /\ op' \in {"begin", "beginFSK", "setModulation"}
           /\ ret' = SX1276_ERR_NONE
           /\ IsFskOok(radio'))
          => TimeoutsOff(regs')]_vars
    /\ [][(/\ op' \notin {"begin", "beginFSK", "setModulation"}
           /\ IsFskOok(radio) /\ IsFskOok(radio')
           /\ TimeoutsOff(regs))
          => TimeoutsOff(regs')]_vars

\* an FSK receive has returned a packet, after a setter call, with the
\* timeouts still off
C30_Witness ==
    /\ pc = "done" /\ op = "receive" /\ ret > 0
    /\ calls = 2
    /\ IsFskOok(radio)
    /\ regs[SX1276_REG_OP_MODE] = SX1276_MODE_STDBY
    /\ TimeoutsOff(regs)

\* ------------------------------------------------------ C31
\* C31: the FSK register encodings lose no bits.  For every bit rate in
\* 1200 .. 300000 the value floor(32000000 / b) lies in 1 .. 65535 and is
\* written as MSB then LSB; for every deviation in {0} or 600 .. 200000 the
\* value floor(d * 2^19 / 32000000) is below 2^14, so the six-bit mask of
\* the MSB discards nothing.
C31_FskEncodingsLoseNoBits ==
    /\ [][(pc = "idle" /\ op' = "setBitrate"
           /\ arg' >= 1200 /\ arg' <= 300000)
          => LET v == 32000000 \div arg'
             IN /\ ret' = SX1276_ERR_NONE
                /\ v >= 1 /\ v <= 65535
                /\ bus' = RegWrite(SX1276_REG_BITRATE_MSB, v \div 256)
                          \o RegWrite(SX1276_REG_BITRATE_LSB, v % 256)
                /\ regs'[SX1276_REG_BITRATE_MSB] * 256
                   + regs'[SX1276_REG_BITRATE_LSB] = v]_vars
    /\ [][(pc = "idle" /\ op' = "setFrequencyDeviation"
           /\ (arg' = 0 \/ (arg' >= 600 /\ arg' <= 200000)))
          => LET v == (arg' * 256) \div 15625
             IN /\ ret' = SX1276_ERR_NONE
                /\ v < 16384
                /\ bus' = RegWrite(SX1276_REG_FDEV_MSB, v \div 256)
                          \o RegWrite(SX1276_REG_FDEV_LSB, v % 256)
                /\ regs'[SX1276_REG_FDEV_MSB] * 256
                   + regs'[SX1276_REG_FDEV_LSB] = v]_vars

\* the lowest bit rate, whose value 26666 needs all of the high byte, and
\* the highest deviation, whose value 3276 fits the six bits
C31_Witness ==
    /\ pc = "done" /\ ret = SX1276_ERR_NONE
    /\ \/ /\ op = "setBitrate" /\ arg = 1200
          /\ regs[SX1276_REG_BITRATE_MSB] = 104
          /\ regs[SX1276_REG_BITRATE_LSB] = 42
       \/ /\ op = "setFrequencyDeviation" /\ arg = 200000
          /\ regs[SX1276_REG_FDEV_MSB] = 12
          /\ regs[SX1276_REG_FDEV_LSB] = 204

\* ------------------------------------------------------ C32
\* Is the completion a polling loop waits for already signalled?  The LoRa
\* loops read DIO0; the FSK/OOK loops read packet-sent or payload-ready.
CompletionPending(at, rg) ==
    CASE at \in {"tx_lora", "rx_lora"} -> ChipDIO0(rg) = HIGH
      [] at = "tx_fsk" ->
            And(rg[SX1276_REG_IRQ_FLAGS_2], SX1276_IRQ2_PACKET_SENT) # 0
      [] at = "rx_fsk" ->
            And(rg[SX1276_REG_IRQ_FLAGS_2], SX1276_IRQ2_PAYLOAD_READY) # 0
      [] OTHER -> FALSE

\* C32: with sticky completion flags, a flag left set by an earlier
\* operation is never taken as completion of the current one: every
\* transmit and receive, in both families, has cleared the flag it is going
\* to poll when it enters TX or RX-continuous mode and starts to wait.
\* Only calls that find the chip in the family the driver has selected are
\* looked at.
C32_StaleFlagNeverCompletes ==
    [][(/\ pc = "idle"
        /\ pc' \in {"tx_lora", "tx_fsk", "rx_lora", "rx_fsk"}
        /\ ChipIsLoRa(regs') = (pc' \in {"tx_lora", "rx_lora"}))
       => ~CompletionPending(pc', regs')]_vars

\* ------------------------------------------------------ C33
\* the values written to the operating-mode register by the writes w of a
\* log, in the order of the log
RECURSIVE OpModeValues(_, _)
OpModeValues(log, w) ==
    IF w = {} THEN <<>>
    ELSE LET i == CHOOSE k \in w : \A j \in w : k <= j
         IN <<WrittenAt(log, i)>> \o OpModeValues(log, w \ {i})

\* every value of vals whose family bit differs from the value the register
\* held before it (prior, then the values written so far) finds the
\* register's mode field at Sleep
RECURSIVE FamilyChangesFromSleep(_, _)
FamilyChangesFromSleep(prior, vals) ==
    \/ vals = <<>>
    \/ /\ FamilyBit(Head(vals)) # FamilyBit(prior)
          => ModeField(prior) = SX1276_MODE_SLEEP
       /\ FamilyChangesFromSleep(Head(vals), Tail(vals))

\* C33: every write to the operating-mode register issued by begin,
\* setModulation or sleep (the bring-up sequences included) whose family bit
\* differs from the value the register held before the write finds the mode
\* field of that value at Sleep.
C33_FamilyChangesOnlyInSleep ==
    [][(pc = "idle" /\ op' \in {"begin", "setModulation", "sleep"})
       => FamilyChangesFromSleep(regs[SX1276_REG_OP_MODE],
                                 OpModeValues(bus', OpModeWrites(bus')))]_vars

\* ------------------------------------------------------ C34
PacketMode(rg) == And(rg[SX1276_REG_PACKET_CONFIG_2], 64) # 0

\* C34: with FSK or OOK selected, a successful bring-up leaves the
\* packet-mode bit (0x40) of the second packet-config register set, and
\* every setter, transmit and receive step that starts and ends with FSK/OOK
\* selected keeps it set, the LoRa setters included.
C34_PacketModeStaysSet ==
    /\ [][(/\ pc = "idle"
           /\ op' \in {"begin", "beginFSK", "setModulation"}
           /\ ret' = SX1276_ERR_NONE
           /\ IsFskOok(radio'))
          => PacketMode(regs')]_vars
    /\ [][(/\ op' \notin {"begin", "beginFSK", "setModulation"}
           /\ IsFskOok(radio) /\ IsFskOok(radio')
           /\ PacketMode(regs))
          => PacketMode(regs')]_vars

\* ------------------------------------------------------ C35
VariableLength(r) == IsFskOok(r) /\ ~r.fixedLength

\* C35: in FSK/OOK variable-length mode a successful bring-up leaves the
\* payload-length register at 255, the ceiling for received packets, and no
\* step of a transmit or a receive that starts and ends in that mode takes
\* it away from 255.
C35_LengthCeilingKept ==
    /\ [][(/\ pc = "idle"
           /\ op' \in {"begin", "setModulation"}
           /\ ret' = SX1276_ERR_NONE
           /\ VariableLength(radio'))
          => regs'[SX1276_REG_PAYLOAD_LENGTH_FSK] = 255]_vars
    /\ [][(/\ op' \in {"transmit", "receive"}
           /\ VariableLength(radio) /\ VariableLength(radio')
           /\ regs[SX1276_REG_PAYLOAD_LENGTH_FSK] = 255)
          => regs'[SX1276_REG_PAYLOAD_LENGTH_FSK] = 255]_vars

\* ------------------------------------------------------ C36
\* (t - t0) mod 2^32 as a number, for the spans a polling loop lasts (less
\* than 2^26 ms): the difference of the high halves modulo 2^16, then the
\* low halves as they are, a borrow taking from the high part
ElapsedMs(t, t0) ==
    ((t.hi - t0.hi + 65536) % 65536) * 65536 + (t.lo - t0.lo)

\* C36: with start and now taken modulo 2^32, an iteration of the polling
\* loop of transmit returns tx-timeout only when (now - start) mod 2^32 is
\* above 5000 and one of receive returns rx-timeout only when it is above
\* 10000; an iteration that stays in the loop has read a clock within the
\* ceiling.  This holds when the clock wraps during polling.
C36_TimeoutAcrossWrap ==
    [][/\ (PollStep /\ pc' = "done" /\ ret' = SX1276_ERR_TX_TIMEOUT)
          => /\ pc \in {"tx_lora", "tx_fsk"}
             /\ ElapsedMs(now', start) > 5000
       /\ (PollStep /\ pc' = "done" /\ ret' = SX1276_ERR_RX_TIMEOUT)
          => /\ pc \in {"rx_lora", "rx_fsk"}
             /\ ElapsedMs(now', start) > 10000
       /\ (PollStep /\ pc' # "done")
          => ElapsedMs(now', start)
                <= (IF pc \in {"tx_lora", "tx_fsk"} THEN 5000 ELSE 10000)
       /\ PollStep => start' = start]_vars

\* a transmit that started 2501 ms before the clock wrapped stayed in its
\* loop at 5000 ms, past the wrap, and timed out at the next reading
C36_Witness ==
    /\ pc = "done" /\ op = "transmit" /\ ret = SX1276_ERR_TX_TIMEOUT
    /\ now.hi < start.hi
    /\ ElapsedMs(now, start) > 5001

\* ------------------------------------------------------ C37
\* A log made of whole transactions, read entry by entry: chip-select goes
\* low only on a closed bus (at the start of the log or after it went high)
\* and an address byte follows; it goes high only after a byte (or as the
\* first entry, the level the bring-up sets before the reset pulse); a byte
\* is sent only inside a transaction; the byte sent after the address of a
\* read (bit 7 clear) is the dummy zero; the log ends with the bus closed.
WellFormed(log) ==
    /\ \A i \in 1 .. Len(log) :
          IF log[i] = <<"cs", LOW>>
          THEN /\ i = 1 \/ log[i - 1] = <<"cs", HIGH>>
               /\ i < Len(log) /\ log[i + 1][1] = "xfer"
          ELSE IF log[i] = <<"cs", HIGH>>
          THEN i = 1 \/ log[i - 1][1] = "xfer"
          ELSE /\ i > 1 /\ log[i - 1] # <<"cs", HIGH>>
               /\ (i > 2 /\ log[i - 2] = <<"cs", LOW>> /\ log[i - 1][2] < 128)
                  => log[i][2] = 0
    /\ log = <<>> \/ log[Len(log)] = <<"cs", HIGH>>

\* C37: bus transactions never nest and are always closed.  Whatever a
\* public operation has done on the bus so far, at its return and between
\* the iterations of its polling loop, is a sequence of whole transactions,
\* each opened on a closed bus and starting with its address byte, the
\* FIFO bursts included; chip-select is high and the chip sees no open
\* transaction, on every return path.
C37_TransactionsNeverNest ==
    /\ WellFormed(bus)
    /\ cs = HIGH
    /\ xfer = NoXfer

\* an FSK/OOK receive has returned a packet it read in a FIFO burst
C37_Witness ==
    /\ pc = "done" /\ op = "receive" /\ ret > 0
    /\ radio.modulation # SX1276_MODULATION_LORA
    /\ \E i \in FifoReads(bus) : bus[i + 3][1] = "xfer"
    /\ Cardinality(Transactions(bus)) > 3

\* ------------------------------------------------------ C38
Selectors ==
    {SX1276_MODULATION_FSK, SX1276_MODULATION_OOK, SX1276_MODULATION_LORA}

\* C38: the stored modulation selector is always FSK, OOK or LoRa; a
\* setModulation that returns wrong-modem has made no bus access and has
\* changed neither the stored configuration nor the chip; receive never
\* returns wrong-modem; and a transmit that returns success has written TX
\* to the mode field of the operating-mode register.
C38_SelectorAlwaysValid ==
    /\ [](radio.modulation \in Selectors)
    /\ [][/\ (pc = "idle" /\ op' = "setModulation"
                /\ ret' = SX1276_ERR_WRONG_MODEM)
             => /\ bus' = <<>>
                /\ radio' = radio /\ regs' = regs /\ fifo' = fifo
          /\ op' = "receive" => ret' # SX1276_ERR_WRONG_MODEM
          /\ (op' = "transmit" /\ pc' = "done" /\ ret' = SX1276_ERR_NONE)
             => \E i \in OpModeWrites(bus') :
                   ModeField(WrittenAt(bus', i)) = SX1276_MODE_TX]_vars

\* with OOK selected, a setModulation was refused as wrong-modem and left
\* the selector at OOK
C38_Witness ==
    /\ pc = "done" /\ op = "setModulation" /\ ret = SX1276_ERR_WRONG_MODEM
    /\ radio.modulation = SX1276_MODULATION_OOK
    /\ bus = <<>>

====
